---- MODULE Spec2Model ----
(***************************************************************************)
(* The ride-matching and trip-lifecycle engine of src/Uber: Driver's       *)
(* lock-guarded availability flag, the driver directory, the matching      *)
(* service and strategy, FareQuote expiry, the Trip state machine and      *)
(* RideService.request_ride / start_ride / end_ride run by concurrent      *)
(* threads.  Every step below is one place where the interpreter can       *)
(* switch threads between accesses to shared objects.                      *)
(***************************************************************************)
EXTENDS Integers, Sequences, FiniteSets, TLC

VARIABLES
    now,           \* datetime.now(), in minutes
    drivers,       \* InMemoryListStorage._drivers
    is_available,  \* Driver._is_available, per driver
    lock,          \* Driver._lock, per driver: the thread holding it
    trip,          \* every Trip object constructed so far, by trip_id
    registry,      \* the keys of RideService._trips
    quote,         \* the FareQuote each client thread holds (main.py `quote`)
    pc,            \* each thread's position
    loc,           \* each thread's arguments, locals and last return value
    calls,         \* RideService calls started so far
    grid,          \* SpatialIndex._grid: cell id -> set of drivers
    location,      \* Driver.location, per driver
    use_spatial_index,  \* DriverMatchingService._use_spatial_index
    storage_lock,  \* DriverStorage._lock: the thread holding it
    spot,          \* the ParkingSpot objects: status and updated_at
    ticket,        \* the Ticket objects: status and updated_at
    booked,        \* history: try_book calls that returned True since the
                   \* driver's last mark_available
    updates,       \* history: the drivers passed to SpatialIndex.update, each
                   \* with its location at that time; latest marks the
                   \* driver's most recent update
    added,         \* history: the drivers passed to DriverStorage.add, in the
                   \* order in which they were stored
    pre            \* history: the shared state when the latest call began

vars == <<now, drivers, is_available, lock, trip, registry, quote, pc, loc,
          calls, grid, location, use_spatial_index, storage_lock, spot, ticket,
          booked, updates, added, pre>>

----------------------------------------------------------------------------
(* Bounds of the model *)

MaxTime == 6
MaxCalls == 5
MaxTrips == 3
MaxCandidates == 3
MaxCoord == 4

(* Program constants *)

ttl_minutes == 5
MAX_RETRIES == 5
\* SpatialIndex cell_size_degrees = 0.01, in units of 0.005 degree
cell_size == 2

Threads == {"p1", "p2", "p3"}
Pair == {"p1", "p2"}
Solo == {"p1"}
NoThread == "free"

Drivers == {"d1", "d2", "d3"}
NoDriver == "None"
\* the drivers of main() and two more Driver objects, used as arguments of the
\* matching strategies and of the spatial index
AllDrivers == Drivers \cup {"d4", "d5"}
\* the drivers the single-client runs register: one per product
Fleet == {"d1", "d3"}

ProductTypes == {"UBER_GO", "UBER_XL", "UBER_SHARE"}
Products == {"UBER_GO", "UBER_XL"}

Otps == {1234, 4321}
NoOtp == 0

TripIds == 1..MaxTrips

\* Coordinates are counted in units of 0.005 degree, half the edge of a
\* SpatialIndex cell: Location(200, 200) is the point (1.0, 1.0).
Location(lat, lon) == [latitude |-> lat, longitude |-> lon]
Origin == Location(0, 0)

(* Driver.location at construction: the three drivers main() registers, at
   (0,0), (1,1) and (10,10), and two drivers near the origin, at
   (0.015,-0.005) and (0.005,-0.005). *)
location0 ==
    [d \in AllDrivers |->
        CASE d = "d1" -> Location(0, 0)
          [] d = "d2" -> Location(200, 200)
          [] d = "d3" -> Location(2000, 2000)
          [] d = "d4" -> Location(3, -1)
          [] d = "d5" -> Location(1, -1)]

\* Driver.rating, in tenths: 4.8, 4.9, 4.5 in main()
rating ==
    [d \in AllDrivers |->
        CASE d = "d1" -> 48
          [] d = "d2" -> 49
          [] d = "d3" -> 45
          [] d = "d4" -> 49
          [] d = "d5" -> 49]

supported_products ==
    [d \in AllDrivers |->
        CASE d = "d1" -> {"UBER_GO"}
          [] d = "d2" -> {"UBER_GO"}
          [] d = "d3" -> {"UBER_XL", "UBER_SHARE"}
          [] d = "d4" -> {"UBER_GO", "UBER_SHARE"}
          [] d = "d5" -> {"UBER_XL"}]

Strategies == {"NearestLocationStrategy", "RatingBasedMatchingStrategy"}

\* pickup points: (0,0) and (0.1,0.1) of main(), (0.01,0.0), and (0.5,0.5)
\* halfway between d1 and d2
Pickups == {Origin, Location(20, 20), Location(2, 0), Location(100, 100)}

\* the drivers that move, and the places they move between: (0.015,-0.005),
\* (0.005,-0.005) and (0.045,0.0), in the cells (1,0), (0,0) and (4,0)
Movers == {"d4", "d5"}
Positions == {Location(3, -1), Location(1, -1), Location(9, 0)}

\* centers of SpatialIndex.search: (0,0), (0.02,0), (-0.015,0.015), (0.03,0)
\* and (1,1)
Centers == {Origin, Location(4, 0), Location(-3, 3), Location(6, 0),
            Location(200, 200)}

\* the locations handed to _get_cell_id: every point of the 0.005-degree
\* lattice within MaxCoord steps of the origin, on both sides of zero
Coordinates == {Location(lat, lon) : lat \in -MaxCoord..MaxCoord,
                                     lon \in -MaxCoord..MaxCoord}

\* the drivers added to a shared DriverStorage (d1 and d5 are in one cell) and
\* the places it is queried at
StorageDrivers == {"d1", "d5", "d2"}
StorageCenters == {Origin, Location(200, 200)}

\* the lists of Driver objects handed to a strategy
CandidateLists == UNION {[1..n -> AllDrivers] : n \in 0..MaxCandidates}

TripStatus == {"REQUESTED", "ASSIGNED", "IN_TRANSIT", "COMPLETED", "CANCELLED"}

(* ParkingLot: the spots of a floor *)
Spots == {"A1", "A2"}
SpotStatus == {"AVAILABLE", "OCCUPIED", "RESERVED", "OUT_OF_SERVICE"}

\* ParkingSpot.__init__ with the default status, at time 0
\* occupy_called is history: occupy was called on the spot and vacate has not
\* been called since
ParkingSpot == [status |-> "AVAILABLE", updated_at |-> 0, occupy_called |-> FALSE]

(* ParkingLot: the tickets *)
TicketNumbers == {"TKT-001", "TKT-002"}
TicketStatus == {"ACTIVE", "PAID", "LOST", "CANCELLED"}

\* Ticket.__init__ with the default status, at time 0; paid is history: the
\* mark_as_paid calls on the ticket that returned
Ticket == [status |-> "ACTIVE", updated_at |-> 0, paid |-> 0]

NoQuote == [product |-> "None", pickup |-> Origin, timestamp |-> 0,
            expiry_time |-> 0, made |-> FALSE]

\* tries counts the try_book calls of a request_ride, queries its matching
\* queries; t_check and t_return are history: the time of the expiry check
\* and the time at which request_ride returned an assigned Trip
NoLoc == [op |-> "none", quote |-> NoQuote, trip_id |-> 0, otp |-> NoOtp,
          driver |-> NoDriver, tries |-> 0, queries |-> 0, ret |-> "none",
          t_check |-> 0, status0 |-> "none", strategy |-> "none",
          pickup |-> Origin, product_type |-> "None", candidate_drivers |-> <<>>,
          cell_id |-> <<0, 0>>, alias |-> FALSE, spot_number |-> "none",
          ticket_number |-> "none", t_return |-> 0]

NoPre == [trip |-> <<>>, registry |-> {}, is_available |-> [d \in Drivers |-> TRUE]]

----------------------------------------------------------------------------
(* Pure functions *)

\* Vehicle.supports
supports(d, product_type) == product_type \in supported_products[d]

\* FareQuote.__init__: expiry_time = timestamp + timedelta(minutes=ttl_minutes)
FareQuote(product, pickup, t) ==
    [product |-> product, pickup |-> pickup, timestamp |-> t,
     expiry_time |-> t + ttl_minutes, made |-> TRUE]

\* is_expired comparing the creation time, not the current time
is_expired_since_creation(q, t) == q.timestamp > q.expiry_time

\* is_expired with >= for >
is_expired_at_boundary(q, t) == t >= q.expiry_time

\* FareQuote.is_expired, with t the value datetime.now() returned
is_expired(q, t) == t > q.expiry_time

\* Trip.__init__
Trip(q) == [product |-> q.product, pickup |-> q.pickup, driver |-> NoDriver,
            status |-> "REQUESTED", otp |-> NoOtp]

\* get_distance of the strategies.  The code takes the square root of this
\* sum; the root is monotone and the sums below have distinct roots, so
\* comparing the sums orders the drivers as the code does.
get_distance(d, pickup) ==
    (location[d].latitude - pickup.latitude) * (location[d].latitude - pickup.latitude)
    + (location[d].longitude - pickup.longitude) * (location[d].longitude - pickup.longitude)

\* the builtin min(candidate_drivers, key=...) on a non-empty list: a scan
\* from the left that replaces the element kept so far only by one whose key
\* is strictly smaller; less[a, b] compares the keys of drivers a and b
min(candidate_drivers, less) ==
    LET best[i \in 1..Len(candidate_drivers)] ==
            IF i = 1 THEN candidate_drivers[1]
            ELSE IF less[candidate_drivers[i], best[i - 1]]
                 THEN candidate_drivers[i]
                 ELSE best[i - 1]
    IN best[Len(candidate_drivers)]

\* a scan that keeps the later of two equally distant drivers
find_driver_keeps_last(pickup, candidate_drivers) ==
    IF candidate_drivers = <<>> THEN NoDriver
    ELSE min(candidate_drivers,
             [a, b \in AllDrivers |->
                 get_distance(a, pickup) <= get_distance(b, pickup)])

\* a strategy that needs two candidates to choose from
find_driver_needs_two(pickup, candidate_drivers) ==
    IF Len(candidate_drivers) <= 1 THEN NoDriver
    ELSE min(candidate_drivers,
             [a, b \in AllDrivers |->
                 get_distance(a, pickup) < get_distance(b, pickup)])

\* NearestLocationStrategy.find_driver
find_driver(pickup, candidate_drivers) ==
    IF candidate_drivers = <<>> THEN NoDriver
    ELSE min(candidate_drivers,
             [a, b \in AllDrivers |->
                 get_distance(a, pickup) < get_distance(b, pickup)])

\* the order of the tuples (-driver.rating, distance) of get_sort_key
get_sort_key_less(a, b, pickup) ==
    \/ 0 - rating[a] < 0 - rating[b]
    \/ /\ rating[a] = rating[b]
       /\ get_distance(a, pickup) < get_distance(b, pickup)

\* the sort key without the minus sign: the lowest rating first
find_driver_by_rating_ascending(pickup, candidate_drivers) ==
    IF candidate_drivers = <<>> THEN NoDriver
    ELSE min(candidate_drivers,
             [a, b \in AllDrivers |->
                 \/ rating[a] < rating[b]
                 \/ /\ rating[a] = rating[b]
                    /\ get_distance(a, pickup) < get_distance(b, pickup)])

\* RatingBasedMatchingStrategy.find_driver
find_driver_by_rating(pickup, candidate_drivers) ==
    IF candidate_drivers = <<>> THEN NoDriver
    ELSE min(candidate_drivers,
             [a, b \in AllDrivers |-> get_sort_key_less(a, b, pickup)])

\* DriverMatchingStrategy.find_driver of the strategy object
strategy_find_driver(strategy, pickup, candidate_drivers) ==
    IF strategy = "NearestLocationStrategy"
    THEN find_driver(pickup, candidate_drivers)
    ELSE find_driver_by_rating(pickup, candidate_drivers)

\* int(x / self._cell_size): the quotient truncated toward zero.  On the
\* coordinates used here the float quotient of the code truncates to the
\* same integer as the exact quotient.
int_div(x, size) == IF x >= 0 THEN x \div size ELSE 0 - ((0 - x) \div size)

\* SpatialIndex._get_cell_id: the pair (x, y) stands for the string "x,y",
\* which is different for different pairs
get_cell_id(l) == <<int_div(l.latitude, cell_size), int_div(l.longitude, cell_size)>>

\* `for dx in range(-1, 1)`: the upper neighbours left out
Offsets_range_exclusive == <<-1, 0>>

\* `for dx in [-1, 0, 1]`, `for dy in [-1, 0, 1]`
Offsets == <<-1, 0, 1>>

\* list(a_set): the members in an order the interpreter chooses
Orderings(S) ==
    {s \in [1..Cardinality(S) -> S] : \A i, j \in 1..Cardinality(S) : i # j => s[i] # s[j]}

\* the lists search can build from position k of the dx, dy loops onward
RECURSIVE search_from(_, _, _)
search_from(center_x, center_y, k) ==
    IF k > Len(Offsets) * Len(Offsets) THEN {<<>>}
    ELSE LET dx == Offsets[((k - 1) \div Len(Offsets)) + 1]
             dy == Offsets[((k - 1) % Len(Offsets)) + 1]
             cell_key == <<center_x + dx, center_y + dy>>
             rest == search_from(center_x, center_y, k + 1)
         IN IF cell_key \in DOMAIN grid
            THEN {a \o b : a \in Orderings(grid[cell_key]), b \in rest}
            ELSE rest

\* SpatialIndex.search: the lists it can return for center
search(center) ==
    search_from(int_div(center.latitude, cell_size),
                int_div(center.longitude, cell_size), 1)

\* the body of get_nearby_drivers returning only the drivers around loc0
list_get_nearby_drivers_in_range(loc0) ==
    SelectSeq(drivers,
              LAMBDA d : /\ get_cell_id(location[d])[1] - get_cell_id(loc0)[1] \in {-1, 0, 1}
                         /\ get_cell_id(location[d])[2] - get_cell_id(loc0)[2] \in {-1, 0, 1})

\* InMemoryListStorage.get_nearby_drivers: a copy of the whole list
list_get_nearby_drivers(loc0) == drivers

\* SpatialGridStorage.get_nearby_drivers: the lists search can return
grid_get_nearby_drivers(loc0) == search(loc0)

\* self._storage.get_nearby_drivers of the service: the lists the storage
\* chosen by use_spatial_index can return
get_nearby_drivers(loc0) ==
    IF use_spatial_index
    THEN grid_get_nearby_drivers(loc0)
    ELSE {list_get_nearby_drivers(loc0)}

\* find_nearest_driver without the vehicle filter
find_nearest_driver_unfiltered(pickup, product, nearby_drivers) ==
    find_driver(pickup, nearby_drivers)

\* DriverMatchingService.find_nearest_driver, with nearby_drivers the list
\* that self._storage.get_nearby_drivers(pickup) returned
find_nearest_driver(pickup, product, nearby_drivers) ==
    LET candidate_drivers == SelectSeq(nearby_drivers, LAMBDA d : supports(d, product))
    IN find_driver(pickup, candidate_drivers)

----------------------------------------------------------------------------
(* Helpers for the thread state *)

Idle(p) == pc[p] = "idle"

\* the call of thread p returns r
Return(p, r) ==
    /\ pc' = [pc EXCEPT ![p] = "idle"]
    /\ loc' = [loc EXCEPT ![p].ret = r]

Goto(p, label) == pc' = [pc EXCEPT ![p] = label]

\* the storage accessed without its lock
storage_lock_ignored == TRUE

\* `with self._lock` of the storage is entered only while no thread holds it
\* (no thread asks for the RLock while holding it)
storage_lock_free == storage_lock = NoThread

\* request_ride calls that have not constructed their Trip yet
Pending == Cardinality({q \in Threads : pc[q] = "rr_expiry"})

\* history: the status of Trip trip_id when a call on it begins
StatusAtCall(trip_id) ==
    IF trip_id \in DOMAIN trip THEN trip[trip_id].status ELSE "none"

Snapshot == [trip |-> trip, registry |-> registry, is_available |-> is_available]

----------------------------------------------------------------------------
(* Driver.try_book and Driver.mark_available *)

\* the flag accessed without the lock
lock_ignored(d) == TRUE

\* `with self._lock` is entered only while no thread holds the lock
lock_free(d) == lock[d] = NoThread

\* Driver.try_book, `with self._lock:` entered
tb_lock(p) ==
    /\ pc[p] = "tb_lock"
    /\ lock_free(loc[p].driver)
    /\ lock' = [lock EXCEPT ![loc[p].driver] = p]
    /\ Goto(p, "tb_test")
    /\ UNCHANGED <<now, drivers, is_available, trip, registry, quote, loc, calls,
                   booked, pre,
                   grid, updates,
                   location, use_spatial_index, storage_lock, spot, added,
                   ticket>>

\* what follows try_book returning False: the caller itself, or the retry
\* loop of request_ride
AfterBookFailed(p) ==
    IF loc[p].op = "try_book"
    THEN Return(p, "False")
    ELSE /\ Goto(p, "rr_match")
         /\ UNCHANGED loc

\* Driver.try_book, `if self._is_available:`; on False the lock is released
\* and the call returns False
tb_test(p) ==
    /\ pc[p] = "tb_test"
    /\ IF is_available[loc[p].driver]
       THEN /\ Goto(p, "tb_set")
            /\ UNCHANGED <<lock, loc>>
       ELSE /\ lock' = [lock EXCEPT ![loc[p].driver] = NoThread]
            /\ AfterBookFailed(p)
    /\ UNCHANGED <<now, drivers, is_available, trip, registry, quote, calls,
                   booked, pre,
                   grid, updates,
                   location, use_spatial_index, storage_lock, spot, added,
                   ticket>>

\* try_book returning True without clearing the flag
tb_set_keeps_flag(p) ==
    /\ pc[p] = "tb_set"
    /\ booked' = [booked EXCEPT ![loc[p].driver] = @ + 1]
    /\ lock' = [lock EXCEPT ![loc[p].driver] = NoThread]
    /\ IF loc[p].op = "try_book"
       THEN Return(p, "True")
       ELSE /\ Goto(p, "rr_assign")
            /\ UNCHANGED loc
    /\ UNCHANGED <<now, drivers, is_available, trip, registry, quote, calls, pre,
                   grid, updates,
                   location, use_spatial_index, storage_lock, spot, added,
                   ticket>>

\* Driver.try_book, `self._is_available = False; return True`
tb_set(p) ==
    /\ pc[p] = "tb_set"
    /\ is_available' = [is_available EXCEPT ![loc[p].driver] = FALSE]
    /\ booked' = [booked EXCEPT ![loc[p].driver] = @ + 1]
    /\ lock' = [lock EXCEPT ![loc[p].driver] = NoThread]
    /\ IF loc[p].op = "try_book"
       THEN Return(p, "True")
       ELSE /\ Goto(p, "rr_assign")
            /\ UNCHANGED loc
    /\ UNCHANGED <<now, drivers, trip, registry, quote, calls, pre,
                   grid, updates,
                   location, use_spatial_index, storage_lock, spot, added,
                   ticket>>

\* Driver.mark_available, `with self._lock:` entered
ma_lock(p) ==
    /\ pc[p] = "ma_lock"
    /\ lock_free(loc[p].driver)
    /\ lock' = [lock EXCEPT ![loc[p].driver] = p]
    /\ Goto(p, "ma_set")
    /\ UNCHANGED <<now, drivers, is_available, trip, registry, quote, loc, calls,
                   booked, pre,
                   grid, updates,
                   location, use_spatial_index, storage_lock, spot, added,
                   ticket>>

\* Driver.mark_available, `self._is_available = True`; as the last statement
\* of Trip.end_ride it is followed by `return True`
ma_set(p) ==
    /\ pc[p] = "ma_set"
    /\ is_available' = [is_available EXCEPT ![loc[p].driver] = TRUE]
    /\ booked' = [booked EXCEPT ![loc[p].driver] = 0]
    /\ lock' = [lock EXCEPT ![loc[p].driver] = NoThread]
    /\ Return(p, IF loc[p].op = "end_ride" THEN "True" ELSE "None")
    /\ UNCHANGED <<now, drivers, trip, registry, quote, calls, pre,
                   grid, updates,
                   location, use_spatial_index, storage_lock, spot, added,
                   ticket>>

\* a thread calls d.try_book()
try_book(p, d) ==
    /\ Idle(p)
    /\ Goto(p, "tb_lock")
    /\ loc' = [loc EXCEPT ![p] = [NoLoc EXCEPT !.op = "try_book", !.driver = d]]
    /\ UNCHANGED <<now, drivers, is_available, lock, trip, registry, quote, calls,
                   booked,
                   grid, updates,
                   location, use_spatial_index, storage_lock, spot, added,
                   ticket>>

\* a thread calls d.mark_available()
mark_available(p, d) ==
    /\ Idle(p)
    /\ Goto(p, "ma_lock")
    /\ loc' = [loc EXCEPT ![p] = [NoLoc EXCEPT !.op = "mark_available", !.driver = d]]
    /\ UNCHANGED <<now, drivers, is_available, lock, trip, registry, quote, calls,
                   booked,
                   grid, updates,
                   location, use_spatial_index, storage_lock, spot, added,
                   ticket>>

----------------------------------------------------------------------------
(* RideService.request_ride *)

\* a client thread calls ride_service.request_ride(rider, quote) with the
\* quote it holds
request_ride(p) ==
    /\ Idle(p)
    /\ quote[p].made
    /\ calls < MaxCalls
    /\ Len(trip) + Pending < MaxTrips
    /\ calls' = calls + 1
    /\ Goto(p, "rr_expiry")
    /\ loc' = [loc EXCEPT ![p] = [NoLoc EXCEPT !.op = "request_ride", !.quote = quote[p]]]
    /\ UNCHANGED <<now, drivers, is_available, lock, trip, registry, quote, booked,
                   grid, updates,
                   location, use_spatial_index, storage_lock, spot, added,
                   ticket>>

\* `if quote.is_expired(): raise QuoteExpiredException`, else the Trip is
\* constructed from the quote (the object is local until it is registered)
rr_expiry(p) ==
    /\ pc[p] = "rr_expiry"
    /\ IF is_expired(loc[p].quote, now)
       THEN /\ pc' = [pc EXCEPT ![p] = "idle"]
            /\ loc' = [loc EXCEPT ![p] = [@ EXCEPT !.ret = "QuoteExpired", !.t_check = now]]
            /\ UNCHANGED trip
       ELSE /\ trip' = Append(trip, Trip(loc[p].quote))
            /\ loc' = [loc EXCEPT ![p] = [@ EXCEPT !.trip_id = Len(trip) + 1, !.t_check = now]]
            /\ Goto(p, "rr_match")
    /\ UNCHANGED <<now, drivers, is_available, lock, registry, quote, calls, booked, pre,
                   grid, updates,
                   location, use_spatial_index, storage_lock, spot, added,
                   ticket>>

\* request_ride raising when no driver could be booked
rr_match_raises(p) ==
    /\ pc[p] = "rr_match"
    /\ storage_lock_free
    /\ IF loc[p].tries = MAX_RETRIES
       THEN Return(p, "NoDriverAvailable")
       ELSE \E nearby_drivers \in get_nearby_drivers(loc[p].quote.pickup) :
            LET driver == find_nearest_driver(loc[p].quote.pickup, loc[p].quote.product,
                                              nearby_drivers)
            IN IF driver = NoDriver
               THEN /\ pc' = [pc EXCEPT ![p] = "idle"]
                    /\ loc' = [loc EXCEPT ![p] = [@ EXCEPT !.queries = @ + 1,
                                                           !.ret = "NoDriverAvailable"]]
               ELSE /\ loc' = [loc EXCEPT ![p] = [@ EXCEPT !.driver = driver,
                                                           !.queries = @ + 1,
                                                           !.tries = @ + 1]]
                    /\ Goto(p, "tb_lock")
    /\ UNCHANGED <<now, drivers, is_available, lock, trip, registry, quote, calls,
                   booked, pre,
                   grid, updates,
                   location, use_spatial_index, storage_lock, spot, added,
                   ticket>>

\* the retry loop running one iteration more than MAX_RETRIES
rr_match_one_more(p) ==
    /\ pc[p] = "rr_match"
    /\ storage_lock_free
    /\ IF loc[p].tries = MAX_RETRIES + 1
       THEN Return(p, "Trip")
       ELSE \E nearby_drivers \in get_nearby_drivers(loc[p].quote.pickup) :
            LET driver == find_nearest_driver(loc[p].quote.pickup, loc[p].quote.product,
                                              nearby_drivers)
            IN IF driver = NoDriver
               THEN /\ pc' = [pc EXCEPT ![p] = "idle"]
                    /\ loc' = [loc EXCEPT ![p] = [@ EXCEPT !.queries = @ + 1,
                                                           !.ret = "Trip"]]
               ELSE /\ loc' = [loc EXCEPT ![p] = [@ EXCEPT !.driver = driver,
                                                           !.queries = @ + 1,
                                                           !.tries = @ + 1]]
                    /\ Goto(p, "tb_lock")
    /\ UNCHANGED <<now, drivers, is_available, lock, trip, registry, quote, calls,
                   booked, pre,
                   grid, updates,
                   location, use_spatial_index, storage_lock, spot, added,
                   ticket>>

\* request_ride registering the Trip it returns without a driver
rr_match_registers(p) ==
    /\ pc[p] = "rr_match"
    /\ storage_lock_free
    /\ IF loc[p].tries = MAX_RETRIES
       THEN Return(p, "Trip") /\ UNCHANGED registry
       ELSE \E nearby_drivers \in get_nearby_drivers(loc[p].quote.pickup) :
            LET driver == find_nearest_driver(loc[p].quote.pickup, loc[p].quote.product,
                                              nearby_drivers)
            IN IF driver = NoDriver
               THEN /\ registry' = registry \cup {loc[p].trip_id}
                    /\ pc' = [pc EXCEPT ![p] = "idle"]
                    /\ loc' = [loc EXCEPT ![p] = [@ EXCEPT !.queries = @ + 1,
                                                           !.ret = "Trip"]]
               ELSE /\ UNCHANGED registry
                    /\ loc' = [loc EXCEPT ![p] = [@ EXCEPT !.driver = driver,
                                                           !.queries = @ + 1,
                                                           !.tries = @ + 1]]
                    /\ Goto(p, "tb_lock")
    /\ UNCHANGED <<now, drivers, is_available, lock, trip, quote, calls,
                   booked, pre,
                   grid, updates,
                   location, use_spatial_index, storage_lock, spot, added,
                   ticket>>

\* request_ride checking the quote again at every iteration of the loop
rr_match_rechecks(p) ==
    /\ pc[p] = "rr_match"
    /\ storage_lock_free
    /\ IF is_expired(loc[p].quote, now)
       THEN Return(p, "QuoteExpired")
       ELSE IF loc[p].tries = MAX_RETRIES
       THEN Return(p, "Trip")
       ELSE \E nearby_drivers \in get_nearby_drivers(loc[p].quote.pickup) :
            LET driver == find_nearest_driver(loc[p].quote.pickup, loc[p].quote.product,
                                              nearby_drivers)
            IN IF driver = NoDriver
               THEN /\ pc' = [pc EXCEPT ![p] = "idle"]
                    /\ loc' = [loc EXCEPT ![p] = [@ EXCEPT !.queries = @ + 1,
                                                           !.ret = "Trip"]]
               ELSE /\ loc' = [loc EXCEPT ![p] = [@ EXCEPT !.driver = driver,
                                                           !.queries = @ + 1,
                                                           !.tries = @ + 1]]
                    /\ Goto(p, "tb_lock")
    /\ UNCHANGED <<now, drivers, is_available, lock, trip, registry, quote, calls,
                   booked, pre,
                   grid, updates,
                   location, use_spatial_index, storage_lock, spot, added,
                   ticket>>

\* the head of `for _ in range(MAX_RETRIES)`, then the matching query of the
\* iteration: the loop ends when it is exhausted or when the query returns
\* no driver, and the Trip is returned as it is
rr_match(p) ==
    /\ pc[p] = "rr_match"
    /\ storage_lock_free
    /\ IF loc[p].tries = MAX_RETRIES
       THEN Return(p, "Trip")
       ELSE \E nearby_drivers \in get_nearby_drivers(loc[p].quote.pickup) :
            LET driver == find_nearest_driver(loc[p].quote.pickup, loc[p].quote.product,
                                              nearby_drivers)
            IN IF driver = NoDriver
               THEN /\ pc' = [pc EXCEPT ![p] = "idle"]
                    /\ loc' = [loc EXCEPT ![p] = [@ EXCEPT !.queries = @ + 1,
                                                           !.ret = "Trip"]]
               ELSE /\ loc' = [loc EXCEPT ![p] = [@ EXCEPT !.driver = driver,
                                                           !.queries = @ + 1,
                                                           !.tries = @ + 1]]
                    /\ Goto(p, "tb_lock")
    /\ UNCHANGED <<now, drivers, is_available, lock, trip, registry, quote, calls,
                   booked, pre,
                   grid, updates,
                   location, use_spatial_index, storage_lock, spot, added,
                   ticket>>

\* request_ride returning the Trip as it is after try_book returned True
rr_assign_drops(p) ==
    /\ pc[p] = "rr_assign"
    /\ pc' = [pc EXCEPT ![p] = "idle"]
    /\ loc' = [loc EXCEPT ![p] = [@ EXCEPT !.ret = "Trip", !.t_return = now]]
    /\ UNCHANGED <<now, drivers, is_available, lock, trip, registry, quote, calls,
                   booked, pre, grid, updates, location, use_spatial_index,
                   storage_lock, spot, added, ticket>>

\* after try_book returned True: the driver is attached, the status set,
\* the OTP drawn, the Trip registered and returned
rr_assign(p) ==
    /\ pc[p] = "rr_assign"
    /\ \E o \in Otps :
          trip' = [trip EXCEPT ![loc[p].trip_id] =
                      [@ EXCEPT !.driver = loc[p].driver, !.status = "ASSIGNED", !.otp = o]]
    /\ registry' = registry \cup {loc[p].trip_id}
    /\ pc' = [pc EXCEPT ![p] = "idle"]
    /\ loc' = [loc EXCEPT ![p] = [@ EXCEPT !.ret = "Trip", !.t_return = now]]
    /\ UNCHANGED <<now, drivers, is_available, lock, quote, calls, booked, pre,
                   grid, updates,
                   location, use_spatial_index, storage_lock, spot, added,
                   ticket>>

----------------------------------------------------------------------------
(* RideService.start_ride and Trip.start_ride *)

start_ride(p, trip_id, otp) ==
    /\ Idle(p)
    /\ calls < MaxCalls
    /\ calls' = calls + 1
    /\ Goto(p, "sr_get")
    /\ loc' = [loc EXCEPT ![p] = [NoLoc EXCEPT !.op = "start_ride", !.trip_id = trip_id,
                                               !.otp = otp,
                                               !.status0 = StatusAtCall(trip_id)]]
    /\ UNCHANGED <<now, drivers, is_available, lock, trip, registry, quote, booked,
                   grid, updates,
                   location, use_spatial_index, storage_lock, spot, added,
                   ticket>>

\* `trip = self._trips.get(trip_id); if not trip: return False`
sr_get(p) ==
    /\ pc[p] = "sr_get"
    /\ IF loc[p].trip_id \notin registry
       THEN Return(p, "False")
       ELSE Goto(p, "sr_check") /\ UNCHANGED loc
    /\ UNCHANGED <<now, drivers, is_available, lock, trip, registry, quote, calls,
                   booked, pre,
                   grid, updates,
                   location, use_spatial_index, storage_lock, spot, added,
                   ticket>>

\* Trip.start_ride without the OTP guard
sr_check_ignores_otp(p) ==
    /\ pc[p] = "sr_check"
    /\ IF trip[loc[p].trip_id].status # "ASSIGNED"
       THEN Return(p, "False")
       ELSE Goto(p, "sr_set") /\ UNCHANGED loc
    /\ UNCHANGED <<now, drivers, is_available, lock, trip, registry, quote, calls,
                   booked, pre,
                   grid, updates,
                   location, use_spatial_index, storage_lock, spot, added,
                   ticket>>

\* Trip.start_ride setting the status before it compares the OTP
sr_check_writes_first(p) ==
    /\ pc[p] = "sr_check"
    /\ IF trip[loc[p].trip_id].status # "ASSIGNED"
       THEN Return(p, "False") /\ UNCHANGED trip
       ELSE /\ trip' = [trip EXCEPT ![loc[p].trip_id].status = "IN_TRANSIT"]
            /\ Return(p, IF trip[loc[p].trip_id].otp # loc[p].otp THEN "False" ELSE "True")
    /\ UNCHANGED <<now, drivers, is_available, lock, registry, quote, calls, booked, pre,
                   grid, updates,
                   location, use_spatial_index, storage_lock, spot, added,
                   ticket>>

\* Trip.start_ride, the two guards (the OTP of a registered Trip never changes)
sr_check(p) ==
    /\ pc[p] = "sr_check"
    /\ IF trip[loc[p].trip_id].status # "ASSIGNED"
       THEN Return(p, "False")
       ELSE IF trip[loc[p].trip_id].otp # loc[p].otp
            THEN Return(p, "False")
            ELSE Goto(p, "sr_set") /\ UNCHANGED loc
    /\ UNCHANGED <<now, drivers, is_available, lock, trip, registry, quote, calls,
                   booked, pre,
                   grid, updates,
                   location, use_spatial_index, storage_lock, spot, added,
                   ticket>>

\* Trip.start_ride, `self.status = TripStatus.IN_TRANSIT; return True`
sr_set(p) ==
    /\ pc[p] = "sr_set"
    /\ trip' = [trip EXCEPT ![loc[p].trip_id].status = "IN_TRANSIT"]
    /\ Return(p, "True")
    /\ UNCHANGED <<now, drivers, is_available, lock, registry, quote, calls, booked, pre,
                   grid, updates,
                   location, use_spatial_index, storage_lock, spot, added,
                   ticket>>

----------------------------------------------------------------------------
(* RideService.end_ride and Trip.end_ride *)

end_ride(p, trip_id) ==
    /\ Idle(p)
    /\ calls < MaxCalls
    /\ calls' = calls + 1
    /\ Goto(p, "er_get")
    /\ loc' = [loc EXCEPT ![p] = [NoLoc EXCEPT !.op = "end_ride", !.trip_id = trip_id,
                                               !.status0 = StatusAtCall(trip_id)]]
    /\ UNCHANGED <<now, drivers, is_available, lock, trip, registry, quote, booked,
                   grid, updates,
                   location, use_spatial_index, storage_lock, spot, added,
                   ticket>>

\* `trip = self._trips.get(trip_id); if not trip: return False`
er_get(p) ==
    /\ pc[p] = "er_get"
    /\ IF loc[p].trip_id \notin registry
       THEN Return(p, "False")
       ELSE Goto(p, "er_check") /\ UNCHANGED loc
    /\ UNCHANGED <<now, drivers, is_available, lock, trip, registry, quote, calls,
                   booked, pre,
                   grid, updates,
                   location, use_spatial_index, storage_lock, spot, added,
                   ticket>>

\* Trip.end_ride, `if self.status != TripStatus.IN_TRANSIT: return False`
er_check(p) ==
    /\ pc[p] = "er_check"
    /\ IF trip[loc[p].trip_id].status # "IN_TRANSIT"
       THEN Return(p, "False")
       ELSE Goto(p, "er_set") /\ UNCHANGED loc
    /\ UNCHANGED <<now, drivers, is_available, lock, trip, registry, quote, calls,
                   booked, pre,
                   grid, updates,
                   location, use_spatial_index, storage_lock, spot, added,
                   ticket>>

\* Trip.end_ride without the mark_available call
er_set_keeps_driver(p) ==
    /\ pc[p] = "er_set"
    /\ trip' = [trip EXCEPT ![loc[p].trip_id].status = "COMPLETED"]
    /\ Return(p, "True")
    /\ UNCHANGED <<now, drivers, is_available, lock, registry, quote, calls, booked, pre,
                   grid, updates,
                   location, use_spatial_index, storage_lock, spot, added,
                   ticket>>

\* Trip.end_ride, `self.status = TripStatus.COMPLETED`, then
\* `if self.driver: self.driver.mark_available()`
er_set(p) ==
    /\ pc[p] = "er_set"
    /\ trip' = [trip EXCEPT ![loc[p].trip_id].status = "COMPLETED"]
    /\ IF trip[loc[p].trip_id].driver # NoDriver
       THEN /\ loc' = [loc EXCEPT ![p].driver = trip[loc[p].trip_id].driver]
            /\ Goto(p, "ma_lock")
       ELSE Return(p, "True")
    /\ UNCHANGED <<now, drivers, is_available, lock, registry, quote, calls, booked, pre,
                   grid, updates,
                   location, use_spatial_index, storage_lock, spot, added,
                   ticket>>

----------------------------------------------------------------------------
(* The clients of main.py and the clock *)

\* RideService.get_estimate: a fresh FareQuote
get_estimate(p, product, pickup) ==
    /\ Idle(p)
    /\ quote' = [quote EXCEPT ![p] = FareQuote(product, pickup, now)]
    /\ UNCHANGED <<now, drivers, is_available, lock, trip, registry, pc, loc, calls,
                   booked, pre,
                   grid, updates,
                   location, use_spatial_index, storage_lock, spot, added,
                   ticket>>

\* simulate_ride_request with force_expiry
force_expiry(p) ==
    /\ Idle(p)
    /\ quote[p].made
    /\ quote[p].expiry_time # quote[p].timestamp - 1
    /\ quote' = [quote EXCEPT ![p].expiry_time = quote[p].timestamp - 1]
    /\ UNCHANGED <<now, drivers, is_available, lock, trip, registry, pc, loc, calls,
                   booked, pre,
                   grid, updates,
                   location, use_spatial_index, storage_lock, spot, added,
                   ticket>>

\* history: updates after update(d)
updates_with(d) ==
    {[u EXCEPT !.latest = u.latest /\ u.driver # d] :
        u \in {v \in updates : v.driver # d \/ v.location # location[d]}}
    \cup {[driver |-> d, location |-> location[d], latest |-> TRUE]}

\* SpatialIndex.update(driver), its effect on _grid
grid_with(d) ==
    LET cell_id == get_cell_id(location[d])
    IN IF cell_id \notin DOMAIN grid
       THEN grid @@ (cell_id :> {d})
       ELSE [grid EXCEPT ![cell_id] = @ \cup {d}]

\* SpatialIndex.update(driver)
update(d) ==
    /\ grid' = grid_with(d)
    /\ updates' = updates_with(d)
    /\ UNCHANGED <<now, drivers, is_available, lock, trip, registry, quote, pc, loc,
                   calls, booked, pre,
                   location, use_spatial_index, storage_lock, spot, added,
                   ticket>>

\* DriverMatchingService.add_driver -> DriverStorage.add, called by the one
\* thread that sets the directory up
add_driver(d) ==
    /\ \A i \in 1..Len(added) : added[i] # d
    /\ storage_lock_free
    /\ IF use_spatial_index
       THEN /\ grid' = grid_with(d)
            /\ updates' = updates_with(d)
            /\ UNCHANGED drivers
       ELSE /\ drivers' = Append(drivers, d)
            /\ UNCHANGED <<grid, updates>>
    /\ added' = Append(added, d)
    /\ UNCHANGED <<now, is_available, lock, trip, registry, quote, pc, loc, calls,
                   booked, pre, location, use_spatial_index, storage_lock, spot,
                   ticket>>

\* a thread calls strategy.find_driver(pickup, candidate_drivers); the method
\* reads the arguments and the drivers' location and rating and writes nothing
call_find_driver(p, strategy, pickup, candidate_drivers) ==
    /\ Idle(p)
    /\ loc' = [loc EXCEPT ![p] =
                  [NoLoc EXCEPT !.op = "find_driver", !.strategy = strategy,
                                !.pickup = pickup,
                                !.candidate_drivers = candidate_drivers,
                                !.driver = strategy_find_driver(strategy, pickup,
                                                                candidate_drivers),
                                !.ret = "Driver"]]
    /\ UNCHANGED <<now, drivers, is_available, lock, trip, registry, quote, pc, calls,
                   booked,
                   grid, updates,
                   location, use_spatial_index, storage_lock, spot, added,
                   ticket>>

\* a thread calls matching_service.find_nearest_driver(pickup, product); the
\* list the directory returned is kept in candidate_drivers
call_find_nearest_driver(p, pickup, product_type) ==
    /\ Idle(p)
    /\ storage_lock_free
    /\ \E nearby_drivers \in get_nearby_drivers(pickup) :
          loc' = [loc EXCEPT ![p] =
                     [NoLoc EXCEPT !.op = "find_nearest_driver", !.pickup = pickup,
                                   !.product_type = product_type,
                                   !.candidate_drivers = nearby_drivers,
                                   !.driver = find_nearest_driver(pickup, product_type,
                                                                  nearby_drivers),
                                   !.ret = "Driver"]]
    /\ UNCHANGED <<now, drivers, is_available, lock, trip, registry, quote, pc, calls,
                   booked,
                   grid, updates,
                   location, use_spatial_index, storage_lock, spot, added,
                   ticket>>

\* a thread calls index._get_cell_id(l)
call_get_cell_id(p, l) ==
    /\ Idle(p)
    /\ loc' = [loc EXCEPT ![p] = [NoLoc EXCEPT !.op = "_get_cell_id", !.pickup = l,
                                               !.cell_id = get_cell_id(l),
                                               !.ret = "str"]]
    /\ UNCHANGED <<now, drivers, is_available, lock, trip, registry, quote, pc, calls,
                   grid, location, use_spatial_index, storage_lock, spot, ticket,
                   booked, updates, added>>

\* a thread calls index.search(center); the list returned is kept in
\* candidate_drivers
call_search(p, center) ==
    /\ Idle(p)
    /\ \E nearby_drivers \in search(center) :
          loc' = [loc EXCEPT ![p] =
                     [NoLoc EXCEPT !.op = "search", !.pickup = center,
                                   !.candidate_drivers = nearby_drivers,
                                   !.ret = "List"]]
    /\ UNCHANGED <<now, drivers, is_available, lock, trip, registry, quote, pc, calls,
                   grid, booked, updates,
                   location, use_spatial_index, storage_lock, spot, added,
                   ticket>>

\* the driver's position changes: `driver.location = l`
move(d, l) ==
    /\ l # location[d]
    /\ location' = [location EXCEPT ![d] = l]
    /\ UNCHANGED <<now, drivers, is_available, lock, trip, registry, quote, pc, loc,
                   calls, grid, use_spatial_index, storage_lock, spot, booked,
                   updates, added, pre,
                   ticket>>

\* time passes
Tick ==
    /\ now < MaxTime
    /\ now' = now + 1
    /\ UNCHANGED <<drivers, is_available, lock, trip, registry, quote, pc, loc, calls,
                   booked, pre,
                   grid, updates,
                   location, use_spatial_index, storage_lock, spot, added,
                   ticket>>

----------------------------------------------------------------------------
(* DriverStorage.add and DriverStorage.get_nearby_drivers, step by step *)

\* a thread calls storage.add(d)
call_add(p, d) ==
    /\ Idle(p)
    /\ \A i \in 1..Len(added) : added[i] # d
    /\ \A q \in Threads : ~(loc[q].op = "add" /\ loc[q].driver = d /\ ~Idle(q))
    /\ Goto(p, "sa_lock")
    /\ loc' = [loc EXCEPT ![p] = [NoLoc EXCEPT !.op = "add", !.driver = d]]
    /\ UNCHANGED <<now, drivers, is_available, lock, trip, registry, quote, calls,
                   grid, location, use_spatial_index, storage_lock, spot, booked,
                   updates, added,
                   ticket>>

\* add, `with self._lock:` entered
sa_lock(p) ==
    /\ pc[p] = "sa_lock"
    /\ storage_lock_free
    /\ storage_lock' = p
    /\ Goto(p, IF use_spatial_index THEN "up_test" ELSE "sa_append")
    /\ UNCHANGED <<now, drivers, is_available, lock, trip, registry, quote, loc, calls,
                   grid, location, use_spatial_index, spot, booked, updates, added,
                   pre,
                   ticket>>

\* InMemoryListStorage.add, `self._drivers.append(driver)`, the lock released
sa_append(p) ==
    /\ pc[p] = "sa_append"
    /\ drivers' = Append(drivers, loc[p].driver)
    /\ added' = Append(added, loc[p].driver)
    /\ storage_lock' = NoThread
    /\ Return(p, "None")
    /\ UNCHANGED <<now, is_available, lock, trip, registry, quote, calls, grid,
                   location, use_spatial_index, spot, booked, updates, pre,
                   ticket>>

\* SpatialIndex.update, `cell_id = self._get_cell_id(driver.location)` and
\* `if cell_id not in self._grid`
up_test(p) ==
    /\ pc[p] = "up_test"
    /\ loc' = [loc EXCEPT ![p].cell_id = get_cell_id(location[loc[p].driver])]
    /\ Goto(p, IF get_cell_id(location[loc[p].driver]) \notin DOMAIN grid
               THEN "up_create" ELSE "up_add")
    /\ UNCHANGED <<now, drivers, is_available, lock, trip, registry, quote, calls,
                   grid, location, use_spatial_index, storage_lock, spot, booked,
                   updates, added, pre,
                   ticket>>

\* SpatialIndex.update, `self._grid[cell_id] = set()`
up_create(p) ==
    /\ pc[p] = "up_create"
    /\ grid' = [c \in DOMAIN grid \cup {loc[p].cell_id} |->
                    IF c = loc[p].cell_id THEN {} ELSE grid[c]]
    /\ Goto(p, "up_add")
    /\ UNCHANGED <<now, drivers, is_available, lock, trip, registry, quote, loc, calls,
                   location, use_spatial_index, storage_lock, spot, booked, updates,
                   added, pre,
                   ticket>>

\* SpatialIndex.update, `self._grid[cell_id].add(driver)`; update and add
\* return and the lock is released
up_add(p) ==
    /\ pc[p] = "up_add"
    /\ grid' = [grid EXCEPT ![loc[p].cell_id] = @ \cup {loc[p].driver}]
    /\ updates' = updates_with(loc[p].driver)
    /\ added' = Append(added, loc[p].driver)
    /\ storage_lock' = NoThread
    /\ Return(p, "None")
    /\ UNCHANGED <<now, drivers, is_available, lock, trip, registry, quote, calls,
                   location, use_spatial_index, spot, booked, pre,
                   ticket>>

\* a thread calls storage.get_nearby_drivers(loc0)
call_get_nearby_drivers(p, loc0) ==
    /\ Idle(p)
    /\ Goto(p, "gn_lock")
    /\ loc' = [loc EXCEPT ![p] = [NoLoc EXCEPT !.op = "get_nearby_drivers",
                                               !.pickup = loc0]]
    /\ UNCHANGED <<now, drivers, is_available, lock, trip, registry, quote, calls,
                   grid, location, use_spatial_index, storage_lock, spot, booked,
                   updates, added,
                   ticket>>

\* get_nearby_drivers, `with self._lock:` entered
gn_lock(p) ==
    /\ pc[p] = "gn_lock"
    /\ storage_lock_free
    /\ storage_lock' = p
    /\ Goto(p, "gn_read")
    /\ UNCHANGED <<now, drivers, is_available, lock, trip, registry, quote, loc, calls,
                   grid, location, use_spatial_index, spot, booked, updates, added,
                   pre,
                   ticket>>

\* get_nearby_drivers returning the list object the storage keeps
gn_read_returns_storage(p) ==
    /\ pc[p] = "gn_read"
    /\ \E nearby_drivers \in get_nearby_drivers(loc[p].pickup) :
          loc' = [loc EXCEPT ![p] = [@ EXCEPT !.candidate_drivers = nearby_drivers,
                                              !.alias = ~use_spatial_index,
                                              !.ret = "List"]]
    /\ pc' = [pc EXCEPT ![p] = "idle"]
    /\ storage_lock' = NoThread
    /\ UNCHANGED <<now, drivers, is_available, lock, trip, registry, quote, calls,
                   grid, location, use_spatial_index, spot, booked, updates, added,
                   pre,
                   ticket>>

\* get_nearby_drivers, `return list(self._drivers)` or
\* `return self._index.search(location)`: a list object this call builds
\* (alias = FALSE); the lock is released
gn_read(p) ==
    /\ pc[p] = "gn_read"
    /\ \E nearby_drivers \in get_nearby_drivers(loc[p].pickup) :
          loc' = [loc EXCEPT ![p] = [@ EXCEPT !.candidate_drivers = nearby_drivers,
                                              !.alias = FALSE,
                                              !.ret = "List"]]
    /\ pc' = [pc EXCEPT ![p] = "idle"]
    /\ storage_lock' = NoThread
    /\ UNCHANGED <<now, drivers, is_available, lock, trip, registry, quote, calls,
                   grid, location, use_spatial_index, spot, booked, updates, added,
                   pre,
                   ticket>>

\* add(d) on a SpatialGridStorage only, of the two storages
add_both_drops_list(d) ==
    /\ \A i \in 1..Len(added) : added[i] # d
    /\ storage_lock_free
    /\ grid' = grid_with(d)
    /\ updates' = updates_with(d)
    /\ added' = Append(added, d)
    /\ UNCHANGED <<now, drivers, is_available, lock, trip, registry, quote, pc, loc,
                   calls, booked, pre, location, use_spatial_index, storage_lock,
                   spot, ticket>>

\* the same add(d) on an InMemoryListStorage and on a SpatialGridStorage
add_both(d) ==
    /\ \A i \in 1..Len(added) : added[i] # d
    /\ storage_lock_free
    /\ drivers' = Append(drivers, d)
    /\ grid' = grid_with(d)
    /\ updates' = updates_with(d)
    /\ added' = Append(added, d)
    /\ UNCHANGED <<now, is_available, lock, trip, registry, quote, pc, loc, calls,
                   booked, pre, location, use_spatial_index, storage_lock, spot,
                   ticket>>

\* a thread calls get_nearby_drivers(loc0) on the SpatialGridStorage; the list
\* returned is kept in candidate_drivers
call_grid_get_nearby_drivers(p, loc0) ==
    /\ Idle(p)
    /\ storage_lock_free
    /\ \E nearby_drivers \in grid_get_nearby_drivers(loc0) :
          loc' = [loc EXCEPT ![p] =
                     [NoLoc EXCEPT !.op = "grid_get_nearby_drivers", !.pickup = loc0,
                                   !.candidate_drivers = nearby_drivers,
                                   !.ret = "List"]]
    /\ UNCHANGED <<now, drivers, is_available, lock, trip, registry, quote, pc, calls,
                   grid, location, use_spatial_index, storage_lock, spot, ticket,
                   booked, updates, added>>

\* the list object a get_nearby_drivers call handed to thread p, as it reads
\* now
ReturnedList(p) == IF loc[p].alias THEN drivers ELSE loc[p].candidate_drivers

----------------------------------------------------------------------------
(* ParkingSpot: the methods that change its status *)

\* ParkingSpot.is_available
is_available_spot(s) == spot[s].status = "AVAILABLE"

\* the call of thread p on spot s returns or raises r
SpotCall(p, op, s, r) ==
    loc' = [loc EXCEPT ![p] = [NoLoc EXCEPT !.op = op, !.spot_number = s, !.ret = r]]

\* occupy without the availability guard
occupy_unguarded(p, s) ==
    /\ Idle(p)
    /\ spot' = [spot EXCEPT ![s] = [status |-> "OCCUPIED", updated_at |-> now,
                                    occupy_called |-> TRUE]]
    /\ SpotCall(p, "occupy", s, "None")
    /\ UNCHANGED <<now, drivers, is_available, lock, trip, registry, quote, pc, calls,
                   grid, location, use_spatial_index, storage_lock, booked, updates,
                   added,
                   ticket>>

\* ParkingSpot.occupy
occupy(p, s) ==
    /\ Idle(p)
    /\ IF ~is_available_spot(s)
       THEN /\ spot' = [spot EXCEPT ![s].occupy_called = TRUE]
            /\ SpotCall(p, "occupy", s, "ValueError")
       ELSE /\ spot' = [spot EXCEPT ![s] = [status |-> "OCCUPIED", updated_at |-> now,
                                            occupy_called |-> TRUE]]
            /\ SpotCall(p, "occupy", s, "None")
    /\ UNCHANGED <<now, drivers, is_available, lock, trip, registry, quote, pc, calls,
                   grid, location, use_spatial_index, storage_lock, booked, updates,
                   added,
                   ticket>>

\* vacate without the OCCUPIED guard
vacate_unguarded(p, s) ==
    /\ Idle(p)
    /\ spot' = [spot EXCEPT ![s] = [status |-> "AVAILABLE", updated_at |-> now,
                                    occupy_called |-> FALSE]]
    /\ SpotCall(p, "vacate", s, "None")
    /\ UNCHANGED <<now, drivers, is_available, lock, trip, registry, quote, pc, calls,
                   grid, location, use_spatial_index, storage_lock, booked, updates,
                   added,
                   ticket>>

\* ParkingSpot.vacate
vacate(p, s) ==
    /\ Idle(p)
    /\ IF spot[s].status # "OCCUPIED"
       THEN /\ spot' = [spot EXCEPT ![s].occupy_called = FALSE]
            /\ SpotCall(p, "vacate", s, "ValueError")
       ELSE /\ spot' = [spot EXCEPT ![s] = [status |-> "AVAILABLE", updated_at |-> now,
                                            occupy_called |-> FALSE]]
            /\ SpotCall(p, "vacate", s, "None")
    /\ UNCHANGED <<now, drivers, is_available, lock, trip, registry, quote, pc, calls,
                   grid, location, use_spatial_index, storage_lock, booked, updates,
                   added,
                   ticket>>

\* ParkingSpot.reserve
reserve(p, s) ==
    /\ Idle(p)
    /\ IF ~is_available_spot(s)
       THEN /\ UNCHANGED spot
            /\ SpotCall(p, "reserve", s, "ValueError")
       ELSE /\ spot' = [spot EXCEPT ![s].status = "RESERVED", ![s].updated_at = now]
            /\ SpotCall(p, "reserve", s, "None")
    /\ UNCHANGED <<now, drivers, is_available, lock, trip, registry, quote, pc, calls,
                   grid, location, use_spatial_index, storage_lock, booked, updates,
                   added,
                   ticket>>

\* ParkingSpot.mark_out_of_service
mark_out_of_service(p, s) ==
    /\ Idle(p)
    /\ spot' = [spot EXCEPT ![s].status = "OUT_OF_SERVICE", ![s].updated_at = now]
    /\ SpotCall(p, "mark_out_of_service", s, "None")
    /\ UNCHANGED <<now, drivers, is_available, lock, trip, registry, quote, pc, calls,
                   grid, location, use_spatial_index, storage_lock, booked, updates,
                   added,
                   ticket>>

----------------------------------------------------------------------------
(* Ticket: the methods that change its status *)

\* Ticket.is_active
is_active(k) == ticket[k].status = "ACTIVE"

\* the call of thread p on ticket k returns or raises r
TicketCall(p, op, k, r) ==
    loc' = [loc EXCEPT ![p] = [NoLoc EXCEPT !.op = op, !.ticket_number = k, !.ret = r]]

\* mark_as_paid without the is_active guard
mark_as_paid_unguarded(p, k) ==
    /\ Idle(p)
    /\ ticket' = [ticket EXCEPT ![k] = [status |-> "PAID", updated_at |-> now,
                                        paid |-> @.paid + 1]]
    /\ TicketCall(p, "mark_as_paid", k, "None")
    /\ UNCHANGED <<now, drivers, is_available, lock, trip, registry, quote, pc, calls,
                   grid, location, use_spatial_index, storage_lock, spot, booked,
                   updates, added>>

\* Ticket.mark_as_paid
mark_as_paid(p, k) ==
    /\ Idle(p)
    /\ IF ~is_active(k)
       THEN /\ UNCHANGED ticket
            /\ TicketCall(p, "mark_as_paid", k, "ValueError")
       ELSE /\ ticket' = [ticket EXCEPT ![k] = [status |-> "PAID", updated_at |-> now,
                                                paid |-> @.paid + 1]]
            /\ TicketCall(p, "mark_as_paid", k, "None")
    /\ UNCHANGED <<now, drivers, is_available, lock, trip, registry, quote, pc, calls,
                   grid, location, use_spatial_index, storage_lock, spot, booked,
                   updates, added>>

\* Ticket.mark_as_lost
mark_as_lost(p, k) ==
    /\ Idle(p)
    /\ ticket' = [ticket EXCEPT ![k].status = "LOST", ![k].updated_at = now]
    /\ TicketCall(p, "mark_as_lost", k, "None")
    /\ UNCHANGED <<now, drivers, is_available, lock, trip, registry, quote, pc, calls,
                   grid, location, use_spatial_index, storage_lock, spot, booked,
                   updates, added>>

\* Ticket.cancel
cancel(p, k) ==
    /\ Idle(p)
    /\ ticket' = [ticket EXCEPT ![k].status = "CANCELLED", ![k].updated_at = now]
    /\ TicketCall(p, "cancel", k, "None")
    /\ UNCHANGED <<now, drivers, is_available, lock, trip, registry, quote, pc, calls,
                   grid, location, use_spatial_index, storage_lock, spot, booked,
                   updates, added>>

----------------------------------------------------------------------------
(* The steps of a thread inside a call *)

Step(p) ==
    \/ tb_lock(p) \/ tb_test(p) \/ tb_set(p)
    \/ ma_lock(p) \/ ma_set(p)
    \/ rr_expiry(p) \/ rr_match(p) \/ rr_assign(p)
    \/ sr_get(p) \/ sr_check(p) \/ sr_set(p)
    \/ er_get(p) \/ er_check(p) \/ er_set(p)

\* a call made while other calls may be running
Concurrent(call) == call /\ UNCHANGED pre

\* a call made when no other call is running
Sequential(call) == (\A q \in Threads : Idle(q)) /\ call /\ pre' = Snapshot

\* the state after construction of the services and the drivers
Constructed ==
    /\ now = 0
    /\ drivers = <<>>
    /\ is_available = [d \in Drivers |-> TRUE]
    /\ lock = [d \in Drivers |-> NoThread]
    /\ trip = <<>>
    /\ registry = {}
    /\ quote = [p \in Threads |-> NoQuote]
    /\ pc = [p \in Threads |-> "idle"]
    /\ loc = [p \in Threads |-> NoLoc]
    /\ calls = 0
    /\ grid = <<>>
    /\ location = location0
    /\ use_spatial_index = FALSE
    /\ storage_lock = NoThread
    /\ spot = [s \in Spots |-> ParkingSpot]
    /\ ticket = [k \in TicketNumbers |-> Ticket]
    /\ added = drivers
    /\ booked = [d \in Drivers |-> 0]
    /\ updates = {}
    /\ pre = NoPre

\* main(), after the three add_driver calls
DemoSetup ==
    /\ now = 0
    /\ drivers = <<"d1", "d2", "d3">>
    /\ is_available = [d \in Drivers |-> TRUE]
    /\ lock = [d \in Drivers |-> NoThread]
    /\ trip = <<>>
    /\ registry = {}
    /\ quote = [p \in Threads |-> NoQuote]
    /\ pc = [p \in Threads |-> "idle"]
    /\ loc = [p \in Threads |-> NoLoc]
    /\ calls = 0
    /\ grid = <<>>
    /\ location = location0
    /\ use_spatial_index = FALSE
    /\ storage_lock = NoThread
    /\ spot = [s \in Spots |-> ParkingSpot]
    /\ ticket = [k \in TicketNumbers |-> Ticket]
    /\ added = drivers
    /\ booked = [d \in Drivers |-> 0]
    /\ updates = {}
    /\ pre = NoPre

----------------------------------------------------------------------------
(* Threads calling try_book and mark_available on the drivers *)

NextDriver ==
    \E p \in Threads :
        \/ \E d \in Drivers : Concurrent(try_book(p, d))
        \/ \E d \in Drivers : Concurrent(mark_available(p, d))
        \/ tb_lock(p) \/ tb_test(p) \/ tb_set(p)
        \/ ma_lock(p) \/ ma_set(p)

SpecDriver == Constructed /\ [][NextDriver]_vars

(* Two client threads calling the RideService concurrently *)

\* main(), each client thread holding the quote of get_estimate for UberGo
DemoQuoted ==
    /\ now = 0
    /\ drivers = <<"d1", "d2", "d3">>
    /\ is_available = [d \in Drivers |-> TRUE]
    /\ lock = [d \in Drivers |-> NoThread]
    /\ trip = <<>>
    /\ registry = {}
    /\ quote = [p \in Threads |-> FareQuote("UBER_GO", Origin, 0)]
    /\ pc = [p \in Threads |-> "idle"]
    /\ loc = [p \in Threads |-> NoLoc]
    /\ calls = 0
    /\ grid = <<>>
    /\ location = location0
    /\ use_spatial_index = FALSE
    /\ storage_lock = NoThread
    /\ spot = [s \in Spots |-> ParkingSpot]
    /\ ticket = [k \in TicketNumbers |-> Ticket]
    /\ added = drivers
    /\ booked = [d \in Drivers |-> 0]
    /\ updates = {}
    /\ pre = NoPre

Init == DemoQuoted

Next ==
    \E p \in Pair :
        \/ Concurrent(request_ride(p))
        \/ \E t \in TripIds, o \in Otps : Concurrent(start_ride(p, t, o))
        \/ \E t \in TripIds : Concurrent(end_ride(p, t))
        \/ Step(p)

Spec == Init /\ [][Next]_vars

(* The same two threads, from a state of Spec in which a ride is under way:
   request_ride and start_ride returned for trip 1 with driver d1 *)

RideUnderWay ==
    /\ now = 0
    /\ drivers = <<"d1", "d2", "d3">>
    /\ is_available = [d \in Drivers |-> d # "d1"]
    /\ lock = [d \in Drivers |-> NoThread]
    /\ trip = <<[Trip(FareQuote("UBER_GO", Origin, 0)) EXCEPT
                     !.driver = "d1", !.status = "IN_TRANSIT", !.otp = 1234]>>
    /\ registry = {1}
    /\ quote = [p \in Threads |-> FareQuote("UBER_GO", Origin, 0)]
    /\ pc = [p \in Threads |-> "idle"]
    /\ loc = [p \in Threads |-> NoLoc]
    /\ calls = 0
    /\ grid = <<>>
    /\ location = location0
    /\ use_spatial_index = FALSE
    /\ storage_lock = NoThread
    /\ spot = [s \in Spots |-> ParkingSpot]
    /\ ticket = [k \in TicketNumbers |-> Ticket]
    /\ added = drivers
    /\ booked = [d \in Drivers |-> IF d = "d1" THEN 1 ELSE 0]
    /\ updates = {}
    /\ pre = NoPre

SpecUnderWay == RideUnderWay /\ [][Next]_vars

(* One client thread: calls never overlap *)

NextSeq ==
    \E p \in Solo :
        \/ \E d \in Fleet : add_driver(d)
        \/ \E product \in Products : get_estimate(p, product, Origin)
        \/ Sequential(request_ride(p))
        \/ \E t \in TripIds, o \in Otps : Sequential(start_ride(p, t, o))
        \/ \E t \in TripIds : Sequential(end_ride(p, t))
        \/ Step(p)

SpecSeq == Constructed /\ [][NextSeq]_vars

(* One client thread requesting rides while time passes *)

NextQuote ==
    \E p \in Solo :
        \/ get_estimate(p, "UBER_GO", Origin)
        \/ force_expiry(p)
        \/ Tick
        \/ Sequential(request_ride(p))
        \/ rr_expiry(p) \/ rr_match(p) \/ rr_assign(p)
        \/ tb_lock(p) \/ tb_test(p) \/ tb_set(p)

SpecQuote == DemoSetup /\ [][NextQuote]_vars

(* Scenario: two compatible drivers, three concurrent request_ride calls *)

TwoDrivers ==
    /\ now = 0
    /\ drivers = <<"d1", "d2">>
    /\ is_available = [d \in Drivers |-> TRUE]
    /\ lock = [d \in Drivers |-> NoThread]
    /\ trip = <<>>
    /\ registry = {}
    /\ quote = [p \in Threads |-> FareQuote("UBER_GO", Origin, 0)]
    /\ pc = [p \in Threads |-> "idle"]
    /\ loc = [p \in Threads |-> NoLoc]
    /\ calls = 0
    /\ grid = <<>>
    /\ location = location0
    /\ use_spatial_index = FALSE
    /\ storage_lock = NoThread
    /\ spot = [s \in Spots |-> ParkingSpot]
    /\ ticket = [k \in TicketNumbers |-> Ticket]
    /\ added = drivers
    /\ booked = [d \in Drivers |-> 0]
    /\ updates = {}
    /\ pre = NoPre

NextRace ==
    \E p \in Threads :
        \/ loc[p].op = "none" /\ Concurrent(request_ride(p))
        \/ rr_expiry(p) \/ rr_match(p) \/ rr_assign(p)
        \/ tb_lock(p) \/ tb_test(p) \/ tb_set(p)

SpecRace == TwoDrivers /\ [][NextRace]_vars

\* the steps of client thread p in the race
RaceStep(p) ==
    \/ loc[p].op = "none" /\ Concurrent(request_ride(p))
    \/ rr_expiry(p) \/ rr_match(p) \/ rr_assign(p)
    \/ tb_lock(p) \/ tb_test(p) \/ tb_set(p)

\* the interpreter keeps scheduling every thread that can take a step
SpecRaceFair == SpecRace /\ \A p \in Threads : WF_vars(RaceStep(p))

(* main() as it is configured: use_spatial_index=True, the three drivers
   added, and the clients holding their quotes: UberGo at (0,0), UberGo at
   (0.1,0.1) and UberXL at (0,0) *)

DemoSpatial ==
    /\ now = 0
    /\ drivers = <<>>
    /\ is_available = [d \in Drivers |-> TRUE]
    /\ lock = [d \in Drivers |-> NoThread]
    /\ trip = <<>>
    /\ registry = {}
    /\ quote = [p \in Threads |->
                   CASE p = "p1" -> FareQuote("UBER_GO", Origin, 0)
                     [] p = "p2" -> FareQuote("UBER_GO", Location(20, 20), 0)
                     [] p = "p3" -> FareQuote("UBER_XL", Origin, 0)]
    /\ pc = [p \in Threads |-> "idle"]
    /\ loc = [p \in Threads |-> NoLoc]
    /\ calls = 0
    /\ grid = [c \in {get_cell_id(location0[d]) : d \in Drivers} |->
                  {d \in Drivers : get_cell_id(location0[d]) = c}]
    /\ location = location0
    /\ use_spatial_index = TRUE
    /\ storage_lock = NoThread
    /\ spot = [s \in Spots |-> ParkingSpot]
    /\ ticket = [k \in TicketNumbers |-> Ticket]
    /\ added = <<"d1", "d2", "d3">>
    /\ booked = [d \in Drivers |-> 0]
    /\ updates = {[driver |-> d, location |-> location0[d], latest |-> TRUE] :
                      d \in Drivers}
    /\ pre = NoPre

SpecDemo == DemoSpatial /\ [][NextRace]_vars

(* The matching strategies applied to every list of candidates: one call of
   find_driver on a strategy object *)

NextStrategy ==
    \E p \in Solo :
        \E strategy \in Strategies, pickup \in Pickups,
           candidate_drivers \in CandidateLists :
            /\ loc[p].op = "none"
            /\ Sequential(call_find_driver(p, strategy, pickup, candidate_drivers))

SpecStrategy == Constructed /\ [][NextStrategy]_vars

(* The matching service queried while drivers are registered *)

NextMatching ==
    \E p \in Solo :
        \/ \E d \in AllDrivers : add_driver(d)
        \/ \E pickup \in Pickups, product_type \in ProductTypes :
              Sequential(call_find_nearest_driver(p, pickup, product_type))

SpecMatching == Constructed /\ [][NextMatching]_vars

(* A SpatialIndex updated and searched *)

NextIndex ==
    \E p \in Solo :
        \/ \E d \in AllDrivers : update(d)
        \/ \E center \in Centers : Sequential(call_search(p, center))

SpecIndex == Constructed /\ [][NextIndex]_vars

(* An InMemoryListStorage and a SpatialGridStorage given the same add calls,
   the grid storage queried *)

NextBoth ==
    \E p \in Solo :
        \/ \E d \in AllDrivers : add_both(d)
        \/ \E loc0 \in Centers : Sequential(call_grid_get_nearby_drivers(p, loc0))

SpecBoth == Constructed /\ [][NextBoth]_vars

(* _get_cell_id applied to two locations, one by each of two threads *)

NextCell ==
    \E p \in Pair, l \in Coordinates :
        loc[p].op = "none" /\ Concurrent(call_get_cell_id(p, l))

SpecCell == Constructed /\ [][NextCell]_vars

(* A SpatialIndex updated while drivers move *)

NextMoving ==
    \E p \in Solo :
        \/ \E d \in Movers : update(d)
        \/ \E d \in Movers, l \in Positions : move(d, l)
        \/ \E center \in Centers : Sequential(call_search(p, center))

SpecMoving == Constructed /\ [][NextMoving]_vars

(* A DriverStorage of either kind, shared by two threads *)

StorageSteps(p) ==
    \/ sa_lock(p) \/ sa_append(p)
    \/ up_test(p) \/ up_create(p) \/ up_add(p)
    \/ gn_lock(p) \/ gn_read(p)

\* DriverMatchingService.__init__ with either value of use_spatial_index
StorageConstructed ==
    /\ now = 0
    /\ drivers = <<>>
    /\ is_available = [d \in Drivers |-> TRUE]
    /\ lock = [d \in Drivers |-> NoThread]
    /\ trip = <<>>
    /\ registry = {}
    /\ quote = [p \in Threads |-> NoQuote]
    /\ pc = [p \in Threads |-> "idle"]
    /\ loc = [p \in Threads |-> NoLoc]
    /\ calls = 0
    /\ grid = <<>>
    /\ location = location0
    /\ use_spatial_index \in BOOLEAN
    /\ storage_lock = NoThread
    /\ spot = [s \in Spots |-> ParkingSpot]
    /\ ticket = [k \in TicketNumbers |-> Ticket]
    /\ added = <<>>
    /\ booked = [d \in Drivers |-> 0]
    /\ updates = {}
    /\ pre = NoPre

NextStorage ==
    \E p \in Pair :
        \/ \E d \in StorageDrivers : Concurrent(call_add(p, d))
        \/ \E loc0 \in StorageCenters : Concurrent(call_get_nearby_drivers(p, loc0))
        \/ StorageSteps(p)

SpecStorage == StorageConstructed /\ [][NextStorage]_vars

(* One thread calling the methods of two ParkingSpot objects while time
   passes *)

NextSpot ==
    \E p \in Solo :
        \/ \E s \in Spots : Sequential(occupy(p, s))
        \/ \E s \in Spots : Sequential(vacate(p, s))
        \/ \E s \in Spots : Sequential(reserve(p, s))
        \/ \E s \in Spots : Sequential(mark_out_of_service(p, s))
        \/ Tick

SpecSpot == Constructed /\ [][NextSpot]_vars

(* One thread calling the methods of two Ticket objects while time passes *)

NextTicket ==
    \E p \in Solo :
        \/ \E k \in TicketNumbers : Sequential(mark_as_paid(p, k))
        \/ \E k \in TicketNumbers : Sequential(mark_as_lost(p, k))
        \/ \E k \in TicketNumbers : Sequential(cancel(p, k))
        \/ Tick

SpecTicket == Constructed /\ [][NextTicket]_vars

----------------------------------------------------------------------------
(* Properties *)

Active == {"ASSIGNED", "IN_TRANSIT"}
Terminal == {"COMPLETED", "CANCELLED"}

\* the trips in ASSIGNED or IN_TRANSIT that driver d is attached to
ActiveTripsOf(d) == {t \in DOMAIN trip : trip[t].driver = d /\ trip[t].status \in Active}

\* thread p returns from its call in this step
Returns(p) == pc[p] # "idle" /\ pc'[p] = "idle"

\* thread p has returned from a call of op
AfterCall(p, op) == Idle(p) /\ loc[p].op = op

\* C1: for every driver and every interleaving of concurrent try_book
\* calls, at most one try_book returns True between two consecutive
\* mark_available calls (or from creation to the first mark_available).
C1_AtMostOneBooking == \A d \in Drivers : booked[d] <= 1

\* two threads raced for the same driver: one won, one lost
C1_Witness ==
    \E d \in Drivers, p, q \in Threads :
        /\ p # q /\ booked[d] = 1
        /\ AfterCall(p, "try_book") /\ loc[p].driver = d /\ loc[p].ret = "True"
        /\ AfterCall(q, "try_book") /\ loc[q].driver = d /\ loc[q].ret = "False"

\* C2: in every reachable state, under any interleaving of concurrent
\* request_ride, start_ride and end_ride calls, each driver is attached to
\* at most one trip whose status is ASSIGNED or IN_TRANSIT.
C2_OneActiveTripPerDriver == \A d \in Drivers : Cardinality(ActiveTripsOf(d)) <= 1

\* every thread has returned from its request_ride
RaceDone == \A p \in Threads : AfterCall(p, "request_ride")

\* C3: with exactly two available compatible drivers in the directory, three
\* concurrent request_ride calls for the same product and pickup always
\* finish with exactly two trips ASSIGNED (distinct drivers) and exactly one
\* trip REQUESTED with no driver.
C3_TwoAssignedOneRequested ==
    RaceDone =>
        LET assigned == {t \in DOMAIN trip : trip[t].status = "ASSIGNED"}
            requested == {t \in DOMAIN trip : trip[t].status = "REQUESTED"
                                                /\ trip[t].driver = NoDriver}
        IN /\ Cardinality(assigned) = 2
           /\ \A t, u \in assigned : t # u => trip[t].driver # trip[u].driver
           /\ Cardinality(requested) = 1

\* C4: request_ride with a quote for which now > quote.expiry_time raises
\* QuoteExpiredException; no driver's flag changes, no matching query or
\* try_book is made and no trip is constructed or registered.
C4_ExpiredQuoteRejected ==
    \A p \in Threads :
        (loc[p].op = "request_ride" /\ pc[p] # "rr_expiry"
            /\ loc[p].t_check > loc[p].quote.expiry_time)
        => /\ Idle(p)
           /\ loc[p].ret = "QuoteExpired"
           /\ loc[p].tries = 0
           /\ Snapshot = pre

\* a quote created at T, request_ride at T+6 minutes, a driver for it free
C4_Witness ==
    \E p \in Threads :
        /\ AfterCall(p, "request_ride") /\ loc[p].ret = "QuoteExpired"
        /\ loc[p].quote.expiry_time = loc[p].quote.timestamp + ttl_minutes
        /\ loc[p].t_check = loc[p].quote.timestamp + ttl_minutes + 1
        /\ \E nearby_drivers \in get_nearby_drivers(loc[p].quote.pickup) :
              LET driver == find_nearest_driver(loc[p].quote.pickup,
                                                loc[p].quote.product, nearby_drivers)
              IN driver # NoDriver /\ is_available[driver]

\* C5: request_ride accepts a quote (no QuoteExpiredException) exactly when
\* now <= quote.expiry_time at the entry check, the instant now = expiry_time
\* included.
C5_AcceptedIffNotExpired ==
    \A p \in Threads :
        (loc[p].op = "request_ride" /\ pc[p] # "rr_expiry")
        => ((loc[p].ret # "QuoteExpired") <=> (loc[p].t_check <= loc[p].quote.expiry_time))

\* a request made exactly at the expiry instant got a driver
C5_Witness ==
    \E p \in Threads :
        /\ AfterCall(p, "request_ride") /\ loc[p].ret = "Trip"
        /\ loc[p].t_check = loc[p].quote.expiry_time
        /\ trip[loc[p].trip_id].status = "ASSIGNED"

\* C6: start_ride(trip_id, otp) returns True and sets the trip to IN_TRANSIT
\* if and only if the trip id is registered, the trip is ASSIGNED and otp is
\* the stored OTP; otherwise it returns False.
C6_StartRide ==
    \A p \in Threads :
        AfterCall(p, "start_ride") =>
            LET t == loc[p].trip_id
                ok == /\ t \in pre.registry
                      /\ pre.trip[t].status = "ASSIGNED"
                      /\ pre.trip[t].otp = loc[p].otp
            IN /\ loc[p].ret = (IF ok THEN "True" ELSE "False")
               /\ ok => trip[t].status = "IN_TRANSIT"

\* the trip with OTP 1234 was started with 1234
C6_Witness ==
    \E p \in Threads :
        /\ AfterCall(p, "start_ride") /\ loc[p].ret = "True" /\ loc[p].otp = 1234
        /\ pre.trip[loc[p].trip_id].status = "ASSIGNED"
        /\ trip[loc[p].trip_id].status = "IN_TRANSIT"

\* C7: end_ride(trip_id) on a registered trip in IN_TRANSIT returns True,
\* sets it to COMPLETED and leaves its driver available with the lock free,
\* so that the next try_book on the driver returns True; on an unknown id
\* or a trip not IN_TRANSIT it returns False.
C7_EndRide ==
    \A p \in Threads :
        AfterCall(p, "end_ride") =>
            LET t == loc[p].trip_id
                ok == t \in pre.registry /\ pre.trip[t].status = "IN_TRANSIT"
            IN /\ loc[p].ret = (IF ok THEN "True" ELSE "False")
               /\ ok => /\ trip[t].status = "COMPLETED"
                         /\ is_available[trip[t].driver]
                         /\ lock[trip[t].driver] = NoThread

\* a trip in transit was ended and its booked driver released
C7_Witness ==
    \E p \in Threads :
        /\ AfterCall(p, "end_ride") /\ loc[p].ret = "True"
        /\ ~pre.is_available[trip[loc[p].trip_id].driver]
        /\ is_available[trip[loc[p].trip_id].driver]

\* C8: a start_ride or end_ride call that returns False leaves the trips,
\* every driver's flag and the registry as they were before the call.
C8_FalseIsNoOp ==
    \A p \in Threads :
        (Idle(p) /\ loc[p].op \in {"start_ride", "end_ride"} /\ loc[p].ret = "False")
        => Snapshot = pre

\* start_ride with the wrong OTP on an ASSIGNED trip returned False
C8_Witness ==
    \E p \in Threads :
        /\ AfterCall(p, "start_ride") /\ loc[p].ret = "False"
        /\ loc[p].trip_id \in registry
        /\ trip[loc[p].trip_id].status = "ASSIGNED"
        /\ trip[loc[p].trip_id].otp = 1234 /\ loc[p].otp = 4321

\* C9: once a trip is COMPLETED or CANCELLED its status never changes again
\* under start_ride and end_ride calls, and every call made on it returns False.
C9_TerminalAbsorbing ==
    [][/\ \A t \in DOMAIN trip :
             trip[t].status \in Terminal => trip'[t].status = trip[t].status
       /\ \A p \in Threads :
             (Returns(p) /\ loc[p].op \in {"start_ride", "end_ride"}
                 /\ loc[p].status0 \in Terminal) => loc'[p].ret = "False"]_vars

\* the change of trip t's status in this step is one of the state machine
LegalChange(t) ==
    LET from == trip[t].status
        to == trip'[t].status
    IN \/ from = to
       \/ /\ from = "REQUESTED" /\ to = "ASSIGNED"
          /\ \E p \in Threads : pc[p] = "rr_assign" /\ loc[p].trip_id = t /\ Returns(p)
       \/ /\ from = "ASSIGNED" /\ to = "IN_TRANSIT"
          /\ \E p \in Threads : /\ loc[p].op = "start_ride" /\ loc[p].trip_id = t
                                 /\ loc[p].otp = trip[t].otp /\ Returns(p)
       \/ /\ from = "IN_TRANSIT" /\ to = "COMPLETED"
          /\ \E p \in Threads : /\ loc[p].op = "end_ride" /\ loc[p].trip_id = t
                                 /\ pc[p] # pc'[p]
       \/ from = "REQUESTED" /\ to = "CANCELLED"

\* C10: every change of a trip's status is REQUESTED->ASSIGNED by the
\* booking step of request_ride, ASSIGNED->IN_TRANSIT by a start_ride given
\* the stored OTP, IN_TRANSIT->COMPLETED by end_ride, or REQUESTED->CANCELLED;
\* a new trip starts in REQUESTED.
C10_LegalTransitions ==
    [][\A t \in DOMAIN trip' :
          IF t \in DOMAIN trip THEN LegalChange(t) ELSE trip'[t].status = "REQUESTED"]_vars

\* C11: a request_ride call with a quote that is not expired and that books
\* no driver (the matching query returned none, or every retry lost its
\* try_book) raises nothing and returns a trip whose status is REQUESTED,
\* whose driver is None and whose OTP is None.
C11_SoftFailure ==
    \A p \in Threads :
        (AfterCall(p, "request_ride") /\ loc[p].t_check <= loc[p].quote.expiry_time
            /\ loc[p].trip_id \notin registry)
        => /\ loc[p].ret = "Trip"
           /\ trip[loc[p].trip_id].status = "REQUESTED"
           /\ trip[loc[p].trip_id].driver = NoDriver
           /\ trip[loc[p].trip_id].otp = NoOtp

\* a request that found its only compatible driver booked at each of its
\* MAX_RETRIES attempts has returned
C11_Witness ==
    \E p \in Threads :
        /\ AfterCall(p, "request_ride") /\ loc[p].ret = "Trip"
        /\ loc[p].trip_id \notin registry
        /\ loc[p].tries = MAX_RETRIES
        /\ ~is_available[loc[p].driver]

\* C12: every request_ride call terminates under any schedule of competing
\* callers, after at most 5 matching queries and at most 5 try_book
\* attempts; a caller that loses every race returns the soft-failure trip.
C12_BoundedRetries ==
    /\ [](\A p \in Threads : loc[p].queries <= 5 /\ loc[p].tries <= 5)
    /\ \A p \in Threads : (pc[p] = "rr_expiry") ~> AfterCall(p, "request_ride")
    /\ [](\A p \in Threads :
            (AfterCall(p, "request_ride") /\ loc[p].trip_id \notin registry)
            => loc[p].ret = "Trip" /\ trip[loc[p].trip_id].status = "REQUESTED")

\* a caller lost all of its five try_book calls to its competitors and has
\* returned the trip still REQUESTED
C12_Witness ==
    \E p, q \in Threads :
        /\ p # q
        /\ AfterCall(p, "request_ride") /\ loc[p].trip_id \notin registry
        /\ loc[p].tries = 5 /\ loc[p].queries = 5
        /\ AfterCall(q, "request_ride") /\ loc[q].trip_id \in registry
        /\ trip[loc[q].trip_id].driver = loc[p].driver

\* C13: in every reachable state a driver's _is_available is False if and
\* only if exactly one trip in ASSIGNED or IN_TRANSIT has that driver attached.
C13_FlagMatchesTrips ==
    \A d \in Drivers : (~is_available[d]) <=> (Cardinality(ActiveTripsOf(d)) = 1)

\* C14: when a retry of request_ride follows a failed try_book on driver d
\* and d is still unavailable, the next matching query takes that into
\* account: if another compatible driver is in the directory result, the
\* query returns a driver other than d.
C14_RetryAvoidsBookedDriver ==
    [][\A p \in Threads :
          LET d == loc[p].driver
          IN (/\ pc[p] = "rr_match" /\ loc[p].tries > 0
              /\ loc'[p].queries = loc[p].queries + 1
              /\ ~is_available[d]
              /\ \E nearby_drivers \in get_nearby_drivers(loc[p].quote.pickup) :
                     \E i \in 1..Len(nearby_drivers) :
                         /\ nearby_drivers[i] # d
                         /\ supports(nearby_drivers[i], loc[p].quote.product))
             => loc'[p].driver # d]_vars

\* C15: try_book returns True exactly when the driver was available at the
\* moment of the call, and then leaves it unavailable; when it returns False
\* the flag is unchanged (still unavailable); mark_available always leaves
\* the driver available.
C15_TryBookFrame ==
    [][\A p \in Threads :
          LET d == loc[p].driver
          IN /\ (pc[p] = "tb_test" /\ pc'[p] # "tb_test")
                    => (is_available[d] <=> pc'[p] = "tb_set")
             /\ (Returns(p) /\ loc[p].op = "try_book" /\ loc'[p].ret = "True")
                    => (pc[p] = "tb_set" /\ is_available[d] /\ ~is_available'[d])
             /\ (Returns(p) /\ loc[p].op = "try_book" /\ loc'[p].ret = "False")
                    => (pc[p] = "tb_test" /\ ~is_available[d]
                        /\ is_available' = is_available)
             /\ (Returns(p) /\ loc[p].op = "mark_available") => is_available'[d]]_vars

\* on one driver: a try_book returned True, a second returned False while
\* it was booked, and on another driver mark_available has returned
C15_Witness ==
    \E p, q, r \in Threads : \E d, e \in Drivers :
        /\ d # e
        /\ AfterCall(p, "try_book") /\ loc[p].driver = d /\ loc[p].ret = "True"
        /\ AfterCall(q, "try_book") /\ loc[q].driver = d /\ loc[q].ret = "False"
        /\ ~is_available[d]
        /\ AfterCall(r, "mark_available") /\ loc[r].driver = e /\ is_available[e]

\* thread p has returned from find_driver of this strategy on a non-empty list
Chosen(p, strategy) ==
    /\ AfterCall(p, "find_driver") /\ loc[p].strategy = strategy
    /\ loc[p].candidate_drivers # <<>>

\* C16: NearestLocationStrategy.find_driver returns, for every pickup and
\* every non-empty candidate list, a candidate whose Euclidean distance to
\* the pickup is minimal over the list, the first such in list order; for
\* drivers at (0,0) and (1,1) and pickup (0,0) it returns the (0,0) driver.
C16_NearestFirstMinimal ==
    \A p \in Threads :
        Chosen(p, "NearestLocationStrategy") =>
            LET s == loc[p].candidate_drivers
                nearest == {i \in 1..Len(s) :
                               \A j \in 1..Len(s) :
                                   get_distance(s[i], loc[p].pickup)
                                       <= get_distance(s[j], loc[p].pickup)}
            IN /\ nearest # {}
               /\ loc[p].driver = s[CHOOSE i \in nearest : \A j \in nearest : i <= j]
               /\ (s = <<"d1", "d2">> /\ loc[p].pickup = Origin) => loc[p].driver = "d1"

\* two different drivers equally near, a farther one before them: the
\* first of the two was returned
C16_Witness ==
    \E p \in Threads :
        /\ Chosen(p, "NearestLocationStrategy")
        /\ Len(loc[p].candidate_drivers) = 3
        /\ loc[p].candidate_drivers[2] # loc[p].candidate_drivers[3]
        /\ get_distance(loc[p].candidate_drivers[2], loc[p].pickup)
              = get_distance(loc[p].candidate_drivers[3], loc[p].pickup)
        /\ get_distance(loc[p].candidate_drivers[1], loc[p].pickup)
              > get_distance(loc[p].candidate_drivers[2], loc[p].pickup)
        /\ loc[p].driver = loc[p].candidate_drivers[2]

\* C17: RatingBasedMatchingStrategy.find_driver returns a candidate of
\* maximal rating and, among the candidates of that rating, one of minimal
\* distance; for drivers at (0,0) rated 4.8 and (1,1) rated 4.9 and pickup
\* (0,0) it returns the (1,1) driver.
C17_BestRatedThenNearest ==
    \A p \in Threads :
        Chosen(p, "RatingBasedMatchingStrategy") =>
            LET s == loc[p].candidate_drivers
                d == loc[p].driver
            IN /\ \E i \in 1..Len(s) : s[i] = d
               /\ \A i \in 1..Len(s) : rating[s[i]] <= rating[d]
               /\ \A i \in 1..Len(s) :
                     rating[s[i]] = rating[d]
                     => get_distance(d, loc[p].pickup) <= get_distance(s[i], loc[p].pickup)
               /\ (s = <<"d1", "d2">> /\ loc[p].pickup = Origin) => d = "d2"

\* the nearest candidate is rated lower, two candidates share the highest
\* rating: the nearer of the two was returned
C17_Witness ==
    \E p \in Threads :
        /\ Chosen(p, "RatingBasedMatchingStrategy")
        /\ loc[p].candidate_drivers = <<"d1", "d2", "d4">>
        /\ loc[p].pickup = Origin
        /\ loc[p].driver = "d4"

\* C18: both strategies return None if and only if the candidate list is
\* empty, and otherwise exactly one element of the supplied list; they change
\* neither the list nor any driver's location, rating or availability.
C18_StrategyFrame ==
    /\ [](\A p \in Threads :
            AfterCall(p, "find_driver") =>
                /\ loc[p].driver = NoDriver <=> loc[p].candidate_drivers = <<>>
                /\ loc[p].candidate_drivers # <<>> =>
                      \E i \in 1..Len(loc[p].candidate_drivers) :
                          loc[p].candidate_drivers[i] = loc[p].driver)
    /\ [][\A p \in Threads :
            loc'[p].op = "find_driver" => UNCHANGED <<drivers, is_available, lock>>]_vars

\* a strategy was given one candidate and returned it
C18_Witness ==
    \E p \in Threads :
        /\ AfterCall(p, "find_driver")
        /\ Len(loc[p].candidate_drivers) = 1
        /\ loc[p].driver = loc[p].candidate_drivers[1]
        /\ is_available = pre.is_available

\* C19: find_nearest_driver(pickup, product) only returns a driver that is
\* in the directory's nearby result and whose vehicle supports
\* product.product_type, and returns None exactly when no driver of the
\* nearby result supports it.
C19_CompatibleOnly ==
    \A p \in Threads :
        AfterCall(p, "find_nearest_driver") =>
            LET nearby_drivers == loc[p].candidate_drivers
                compatible == {i \in 1..Len(nearby_drivers) :
                                  loc[p].product_type
                                      \in supported_products[nearby_drivers[i]]}
            IN /\ loc[p].driver = NoDriver <=> compatible = {}
               /\ loc[p].driver # NoDriver =>
                      \E i \in compatible : nearby_drivers[i] = loc[p].driver

\* the nearest registered driver does not support the product: a farther
\* one that does was returned
C19_Witness ==
    \E p \in Threads :
        /\ AfterCall(p, "find_nearest_driver")
        /\ loc[p].driver # NoDriver
        /\ \E i \in 1..Len(loc[p].candidate_drivers) :
              /\ loc[p].product_type
                    \notin supported_products[loc[p].candidate_drivers[i]]
              /\ get_distance(loc[p].candidate_drivers[i], loc[p].pickup)
                    < get_distance(loc[p].driver, loc[p].pickup)

\* the cell of location l has both indices within 1 of those of center's cell
InNeighbourhood(l, center) ==
    /\ get_cell_id(l)[1] - get_cell_id(center)[1] \in {-1, 0, 1}
    /\ get_cell_id(l)[2] - get_cell_id(center)[2] \in {-1, 0, 1}

\* C20: after any sequence of SpatialIndex.update calls, search(center)
\* contains every driver d added through update(d) whose cell, computed from
\* its location at update time, has both cell indices within 1 of the cell
\* indices of center.
C20_SearchFindsNeighbours ==
    [][\A p \in Threads :
          (loc'[p].op = "search" /\ loc'[p] # loc[p]) =>
              \A u \in updates :
                  InNeighbourhood(u.location, loc'[p].pickup) =>
                      \E i \in 1..Len(loc'[p].candidate_drivers) :
                          loc'[p].candidate_drivers[i] = u.driver]_vars

\* all five drivers were added; a search around the cell next to d4's, two
\* cells from d1's and d5's, returned d4 alone
C20_Witness ==
    \E p \in Threads :
        /\ AfterCall(p, "search") /\ loc[p].pickup = Location(4, 0)
        /\ {u.driver : u \in updates} = AllDrivers
        /\ loc[p].candidate_drivers = <<"d4">>

\* the cells that hold driver d
CellsOf(d) == {c \in DOMAIN grid : d \in grid[c]}

\* C21: after any sequence of SpatialIndex.update calls in which a driver's
\* location changes between updates, each driver is a member of at most one
\* cell, the cell of its location at its latest update, so search never
\* returns d for a neighbourhood that contains only d's old cell.
C21_OneCellPerDriver ==
    \A d \in AllDrivers :
        /\ Cardinality(CellsOf(d)) <= 1
        /\ \A c \in CellsOf(d) :
              \E u \in updates : u.driver = d /\ u.latest /\ c = get_cell_id(u.location)
        /\ \A center \in Centers : \A nearby_drivers \in search(center) :
              (\E i \in 1..Len(nearby_drivers) : nearby_drivers[i] = d)
              => \E u \in updates : /\ u.driver = d /\ u.latest
                                      /\ get_cell_id(u.location)[1]
                                            - get_cell_id(center)[1] \in {-1, 0, 1}
                                      /\ get_cell_id(u.location)[2]
                                            - get_cell_id(center)[2] \in {-1, 0, 1}

\* the members of the cells within 1 of center's cell in both indices
Block(center) ==
    UNION {grid[c] : c \in {k \in DOMAIN grid :
                                /\ k[1] - get_cell_id(center)[1] \in {-1, 0, 1}
                                /\ k[2] - get_cell_id(center)[2] \in {-1, 0, 1}}}

\* C22: SpatialIndex.search(center) returns exactly the union of the member
\* sets of the 9 cells whose indices are within 1 of center's cell indices:
\* no driver stored only in a cell outside that block is returned, and no
\* driver appears more than once in the returned list.
C22_SearchIsBlockUnion ==
    [][\A p \in Threads :
          (loc'[p].op = "search" /\ loc'[p] # loc[p]) =>
              LET nearby_drivers == loc'[p].candidate_drivers
              IN /\ {nearby_drivers[i] : i \in 1..Len(nearby_drivers)}
                        = Block(loc'[p].pickup)
                 /\ \A i, j \in 1..Len(nearby_drivers) :
                        i # j => nearby_drivers[i] # nearby_drivers[j]]_vars

\* a get_nearby_drivers call of thread p has returned its list, and p has not
\* made another call since
HoldsList(p) ==
    Idle(p) /\ loc[p].op = "get_nearby_drivers" /\ loc[p].ret = "List"

\* C23: for both DriverStorage variants the list that get_nearby_drivers
\* returned is a snapshot: no later step of an add call (nor of any other
\* call) changes what that list holds.
C23_ReturnedListIsSnapshot ==
    [][\A p \in Threads :
          HoldsList(p) /\ HoldsList(p)' /\ loc'[p] = loc[p]
              => ReturnedList(p)' = ReturnedList(p)]_vars

\* a thread holds a returned list that lacks a driver added since, in the
\* list storage and in the grid storage
C23_Witness ==
    \E p \in Threads :
        /\ HoldsList(p)
        /\ loc[p].pickup = Origin
        /\ Len(ReturnedList(p)) = 1
        /\ Len(added) = 3


\* the threads inside `with self._lock:` of the storage
InCriticalSection ==
    {p \in Threads : pc[p] \in {"sa_append", "up_test", "up_create", "up_add",
                                 "gn_read"}}

\* the drivers the storage holds
Stored ==
    IF use_spatial_index
    THEN UNION {grid[c] : c \in DOMAIN grid}
    ELSE {drivers[i] : i \in 1..Len(drivers)}

\* the cell of location l is in the 3 x 3 block around the cell of loc0
InBlock(l, loc0) ==
    /\ get_cell_id(l)[1] - get_cell_id(loc0)[1] \in {-1, 0, 1}
    /\ get_cell_id(l)[2] - get_cell_id(loc0)[2] \in {-1, 0, 1}

\* the drivers of the add calls that have returned and that a read at loc0
\* is due
Due(loc0) ==
    {added[i] : i \in {j \in 1..Len(added) :
                          use_spatial_index => InBlock(location[added[j]], loc0)}}

\* C24: for both DriverStorage variants the critical sections of add and
\* get_nearby_drivers never overlap across threads, the driver of every add
\* that returned is in the storage (none is lost), and every read returns
\* the drivers of exactly the adds completed before it took the lock, each
\* add seen entirely or not at all.
C24_StorageCallsAreAtomic ==
    /\ [](Cardinality(InCriticalSection) <= 1)
    /\ []({added[i] : i \in 1..Len(added)} \subseteq Stored)
    /\ [][\A p \in Threads :
             pc[p] = "gn_read" /\ pc'[p] = "idle"
                 => {loc'[p].candidate_drivers[i] :
                        i \in 1..Len(loc'[p].candidate_drivers)}
                    = Due(loc[p].pickup)]_vars

\* a read waits for the storage lock while the other thread is inside the
\* add of the second driver of a cell
C24_Witness ==
    \E p, q \in Threads :
        /\ pc[p] = "gn_lock" /\ loc[p].pickup = Origin
        /\ pc[q] \in {"sa_append", "up_add"} /\ loc[q].driver = "d5"
        /\ added = <<"d1">>


\* C25: InMemoryListStorage.get_nearby_drivers returns all the drivers added
\* so far, in insertion order, whatever the query location and wherever the
\* drivers are.
C25_ListStorageReturnsAll ==
    [][\A p \in Threads :
          ~use_spatial_index /\ pc[p] = "gn_read" /\ pc'[p] = "idle"
              => loc'[p].candidate_drivers = added]_vars

\* the list storage queried at the origin returned a driver who is far from
\* it, after the drivers near it
C25_Witness ==
    \E p \in Threads :
        /\ ~use_spatial_index
        /\ HoldsList(p)
        /\ loc[p].pickup = Origin
        /\ loc[p].candidate_drivers = <<"d5", "d1", "d2">>


\* C26: for every FareQuote, in every reachable state of the engine and of its
\* client flow, expiry_time = timestamp + ttl_minutes, and no field of a quote
\* changes after it was created (the client's quote variable changes only by
\* holding a newly constructed FareQuote).
C26_QuoteIsImmutable ==
    /\ [](\A p \in Threads :
             quote[p].made => quote[p].expiry_time = quote[p].timestamp + ttl_minutes)
    /\ [][\A p \in Threads :
             quote'[p] # quote[p]
                 => quote'[p] = FareQuote(quote'[p].product, quote'[p].pickup, now)]_vars


\* no Trip has the status CANCELLED
NoTripIsCancelled == \A t \in DOMAIN trip : trip[t].status # "CANCELLED"

\* C27: the status CANCELLED is reachable: some operation of the engine moves
\* a trip that is in REQUESTED to CANCELLED, so the engine, run to the end of
\* its calls with a trip left in REQUESTED, eventually shows a CANCELLED trip.
C27_CancelledIsReached == <>(~NoTripIsCancelled)


\* thread p takes a step of a start_ride or end_ride call
RideStep(p) ==
    /\ loc[p].op \in {"start_ride", "end_ride"}
    /\ pc[p] # "idle"
    /\ pc'[p] # pc[p]

\* a start_ride or end_ride call on trip id B is running
CallRunsOn(B) ==
    \E q \in Threads :
        loc[q].op \in {"start_ride", "end_ride"} /\ pc[q] # "idle" /\ loc[q].trip_id = B

\* C28: while a call on trip id B is running, the steps of a start_ride or
\* end_ride call on a different trip id A never change the status, driver or
\* OTP of B, nor B's registration, nor the availability of the driver
\* attached to B while B is ASSIGNED or IN_TRANSIT; the calls on B, which
\* read nothing else, therefore return what they return without the calls
\* on A.
C28_OtherTripUntouched ==
    [][\A p \in Threads :
          RideStep(p) =>
              \A B \in {t \in DOMAIN trip : t # loc[p].trip_id /\ CallRunsOn(t)} :
                  /\ trip'[B] = trip[B]
                  /\ (B \in registry) = (B \in registry')
                  /\ trip[B].status \in Active /\ trip[B].driver # NoDriver
                         => is_available'[trip[B].driver]
                                = is_available[trip[B].driver]]_vars


\* C29: in the configuration of main() (spatial index on, cells of 0.01
\* degree, d3 at (10,10) the only driver supporting UBER_XL) the UberXL
\* request with pickup (0,0) gets driver d3 assigned.
C29_XLRequestGetsD3 ==
    \A p \in Threads :
        /\ Idle(p)
        /\ loc[p].op = "request_ride"
        /\ loc[p].quote.product = "UBER_XL"
        /\ loc[p].quote.pickup = Origin
        /\ loc[p].ret = "Trip"
        => /\ trip[loc[p].trip_id].driver = "d3"
           /\ trip[loc[p].trip_id].status = "ASSIGNED"


\* thread p makes the call occupy() on spot s in this step
Occupies(p, s) ==
    loc'[p] # loc[p] /\ loc'[p].op = "occupy" /\ loc'[p].spot_number = s

\* C30: ParkingSpot.occupy on a spot whose status is not AVAILABLE raises
\* ValueError and leaves the status unchanged; on an AVAILABLE spot it sets
\* the status to OCCUPIED; so an occupy call that follows an occupy call on
\* the spot with no vacate call in between always raises.
C30_OccupyGuardsAvailability ==
    [][\A p \in Threads, s \in Spots :
          Occupies(p, s) =>
              /\ spot[s].status # "AVAILABLE"
                     => /\ loc'[p].ret = "ValueError"
                        /\ spot'[s].status = spot[s].status
                        /\ spot'[s].updated_at = spot[s].updated_at
              /\ spot[s].status = "AVAILABLE"
                     => loc'[p].ret = "None" /\ spot'[s].status = "OCCUPIED"
              /\ spot[s].occupy_called => loc'[p].ret = "ValueError"]_vars

\* an occupy call has raised on a spot that an earlier occupy call occupied
C30_Witness ==
    \E p \in Threads, s \in Spots :
        /\ loc[p].op = "occupy" /\ loc[p].spot_number = s
        /\ loc[p].ret = "ValueError"
        /\ spot[s].status = "OCCUPIED"
        /\ spot[s].updated_at < now


\* thread p makes the call vacate() on spot s in this step
Vacates(p, s) ==
    loc'[p] # loc[p] /\ loc'[p].op = "vacate" /\ loc'[p].spot_number = s

\* the latest call of thread p was op on spot s and it returned
Succeeded(p, op, s) ==
    loc[p].op = op /\ loc[p].spot_number = s /\ loc[p].ret = "None"

\* C31: for a ParkingSpot, vacate right after a successful occupy returns the
\* spot to AVAILABLE (is_available() is True again) and an occupy right after
\* that vacate succeeds; vacate on a spot that is not OCCUPIED raises
\* ValueError and leaves the status unchanged.
C31_VacateUndoesOccupy ==
    [][\A p \in Threads, s \in Spots :
          /\ Vacates(p, s) =>
                /\ Succeeded(p, "occupy", s)
                       => /\ loc'[p].ret = "None"
                          /\ spot'[s].status = "AVAILABLE"
                          /\ is_available_spot(s)'
                /\ spot[s].status # "OCCUPIED"
                       => /\ loc'[p].ret = "ValueError"
                          /\ spot'[s].status = spot[s].status
                          /\ spot'[s].updated_at = spot[s].updated_at
          /\ Occupies(p, s) /\ Succeeded(p, "vacate", s)
                => loc'[p].ret = "None" /\ spot'[s].status = "OCCUPIED"]_vars

\* a vacate call has returned on a spot that an occupy call had occupied, and
\* the spot is available again
C31_Witness ==
    \E p \in Threads, s \in Spots :
        /\ Succeeded(p, "vacate", s)
        /\ spot[s].status = "AVAILABLE"
        /\ spot[s].updated_at = now /\ now > 0


\* thread p makes the call mark_as_paid() on ticket k in this step
MarksPaid(p, k) ==
    loc'[p] # loc[p] /\ loc'[p].op = "mark_as_paid" /\ loc'[p].ticket_number = k

\* C32: Ticket.mark_as_paid moves a ticket whose status is ACTIVE to PAID; on
\* a ticket that is PAID, LOST or CANCELLED it raises ValueError and leaves
\* the status unchanged; so no ticket is marked paid more than once.
C32_PaidAtMostOnce ==
    /\ [][\A p \in Threads, k \in TicketNumbers :
             MarksPaid(p, k) =>
                 /\ ticket[k].status = "ACTIVE"
                        => loc'[p].ret = "None" /\ ticket'[k].status = "PAID"
                 /\ ticket[k].status # "ACTIVE"
                        => /\ loc'[p].ret = "ValueError"
                           /\ ticket'[k] = ticket[k]]_vars
    /\ [](\A k \in TicketNumbers : ticket[k].paid <= 1)

\* mark_as_paid has raised on a ticket that an earlier call marked paid
C32_Witness ==
    \E p \in Threads, k \in TicketNumbers :
        /\ loc[p].op = "mark_as_paid" /\ loc[p].ticket_number = k
        /\ loc[p].ret = "ValueError"
        /\ ticket[k].status = "PAID"
        /\ ticket[k].updated_at < now


\* C33: of the end_ride calls on one trip id, sequential or interleaved, at
\* most one returns True (no two threads hold a True from end_ride on the
\* same trip), and the mark_available of an end_ride never releases a driver
\* who is by then attached to another trip that is ASSIGNED or IN_TRANSIT.
C33_EndRideOnce ==
    /\ [](\A p, q \in Threads :
             (/\ p # q
              /\ AfterCall(p, "end_ride") /\ AfterCall(q, "end_ride")
              /\ loc[p].trip_id = loc[q].trip_id)
                 => ~(loc[p].ret = "True" /\ loc[q].ret = "True"))
    /\ [][\A p \in Threads :
             (pc[p] = "ma_set" /\ loc[p].op = "end_ride" /\ Returns(p))
                 => \A B \in DOMAIN trip \ {loc[p].trip_id} :
                        ~(trip[B].driver = loc[p].driver
                            /\ trip[B].status \in Active)]_vars

\* C34: every trip in the RideService registry has status ASSIGNED,
\* IN_TRANSIT or COMPLETED, a driver whose vehicle supports the trip's
\* product type, and an OTP in 1000..9999; a trip that request_ride returned
\* without a driver is not in the registry.
C34_RegistryHoldsMatchedTrips ==
    /\ \A t \in registry :
          /\ trip[t].status \in {"ASSIGNED", "IN_TRANSIT", "COMPLETED"}
          /\ trip[t].driver # NoDriver
          /\ supports(trip[t].driver, trip[t].product)
          /\ trip[t].otp \in 1000..9999
    /\ \A p \in Threads :
          (/\ AfterCall(p, "request_ride") /\ loc[p].ret = "Trip"
           /\ trip[loc[p].trip_id].driver = NoDriver)
              => loc[p].trip_id \notin registry

\* a completed UberXL trip is registered and the latest request_ride returned
\* a trip without a driver
C34_Witness ==
    /\ \E t \in registry : trip[t].status = "COMPLETED" /\ trip[t].product = "UBER_XL"
    /\ \E p \in Threads :
          /\ AfterCall(p, "request_ride") /\ loc[p].ret = "Trip"
          /\ trip[loc[p].trip_id].driver = NoDriver


\* C35: while a trip is ASSIGNED or IN_TRANSIT its driver is unavailable, and
\* no step of any call makes that driver available while the trip stays
\* ASSIGNED or IN_TRANSIT (only the end_ride that completes the trip
\* releases him), so an assigned trip that is never started holds its driver.
C35_ActiveTripHoldsDriver ==
    /\ [](\A t \in registry :
             trip[t].status \in Active => ~is_available[trip[t].driver])
    /\ [][\A t \in registry :
             (trip[t].status \in Active /\ trip'[t].status \in Active)
                 => (~is_available[trip[t].driver]
                        => ~is_available'[trip[t].driver])]_vars


\* the distance between two coordinates
Apart(a, b) == IF a >= b THEN a - b ELSE b - a

\* C36: the cells of the SpatialIndex all have the edge length cell_size: two
\* locations get the same cell id from _get_cell_id only if their latitudes
\* differ by less than cell_size and their longitudes differ by less than
\* cell_size, also when the coordinates are on opposite sides of zero.
C36_CellsHaveOneSize ==
    \A p, q \in Threads :
        (/\ AfterCall(p, "_get_cell_id") /\ AfterCall(q, "_get_cell_id")
         /\ loc[p].cell_id = loc[q].cell_id)
            => /\ Apart(loc[p].pickup.latitude, loc[q].pickup.latitude) < cell_size
               /\ Apart(loc[p].pickup.longitude, loc[q].pickup.longitude) < cell_size


\* thread p is inside request_ride, past the entry check
PastEntryCheck(p) ==
    loc[p].op = "request_ride" /\ pc[p] \in {"rr_match", "tb_lock", "tb_test",
                                              "tb_set", "rr_assign"}

\* C37: the quote's TTL is checked once, at the entry of request_ride: past
\* that check no step of the request raises QuoteExpiredException, however
\* late it is, and a request that books a driver returns its trip ASSIGNED
\* also when the quote has expired in the meantime.
C37_TtlCheckedAtEntryOnly ==
    [][\A p \in Threads :
          PastEntryCheck(p) =>
              /\ loc'[p].ret # "QuoteExpired"
              /\ loc'[p].t_check = loc[p].t_check
              /\ (pc[p] = "rr_assign" /\ Returns(p))
                     => /\ loc'[p].ret = "Trip"
                        /\ trip'[loc[p].trip_id].status = "ASSIGNED"]_vars

\* a request whose quote was valid at the entry check returned an ASSIGNED
\* trip after the quote's expiry time
C37_Witness ==
    \E p \in Threads :
        /\ AfterCall(p, "request_ride") /\ loc[p].ret = "Trip"
        /\ loc[p].t_check <= loc[p].quote.expiry_time
        /\ loc[p].t_return > loc[p].quote.expiry_time
        /\ loc[p].quote.expiry_time = loc[p].quote.timestamp + ttl_minutes
        /\ trip[loc[p].trip_id].status = "ASSIGNED"


\* thread p takes a step of a request_ride call
RequestStep(p) ==
    loc[p].op = "request_ride" /\ pc[p] # "idle" /\ pc'[p] # pc[p]

\* C38: a request_ride call that returns a trip without a driver has changed
\* nothing shared: the only steps of a request that change a driver's flag
\* or the registry are the try_book that returns True and the assignment
\* that follows it, and that assignment returns the trip with the driver,
\* registered; a request that returns its trip without a driver returns
\* from the loop, changing no flag and registering nothing.
C38_FailedRequestChangesNothing ==
    [][\A p \in Threads :
          RequestStep(p) =>
              LET t == loc'[p].trip_id
              IN /\ (is_available' # is_available \/ registry' # registry)
                        => (pc'[p] = "rr_assign" \/ pc[p] = "rr_assign")
                 /\ pc[p] = "rr_assign"
                        => /\ Returns(p)
                           /\ trip'[t].driver = loc[p].driver
                           /\ trip'[t].driver # NoDriver
                           /\ t \in registry'
                 /\ (Returns(p) /\ loc'[p].ret = "Trip" /\ trip'[t].driver = NoDriver)
                        => /\ pc[p] = "rr_match"
                           /\ is_available' = is_available
                           /\ registry' = registry
                           /\ t \notin registry']_vars

\* a request has returned its trip without a driver after five try_book
\* calls on d1, who is booked for the one registered trip
C38_Witness ==
    \E p \in Threads :
        /\ AfterCall(p, "request_ride") /\ loc[p].ret = "Trip"
        /\ trip[loc[p].trip_id].driver = NoDriver
        /\ loc[p].trip_id \notin registry
        /\ loc[p].tries = MAX_RETRIES
        /\ loc[p].driver = "d1" /\ ~is_available["d1"]
        /\ \E t \in registry : trip[t].driver = "d1" /\ trip[t].status = "ASSIGNED"


\* the members of a list
Members(list) == {list[i] : i \in 1..Len(list)}

\* C39: for the same sequence of add calls, with no driver moving between
\* them, and the same query location, every driver that
\* SpatialGridStorage.get_nearby_drivers returns is also in the list that
\* InMemoryListStorage.get_nearby_drivers returns.
C39_GridResultWithinListResult ==
    [][\A p \in Threads :
          (loc'[p] # loc[p] /\ loc'[p].op = "grid_get_nearby_drivers")
              => Members(loc'[p].candidate_drivers)
                     \subseteq Members(list_get_nearby_drivers(loc'[p].pickup))]_vars

\* the grid storage returned a driver near the origin and left out drivers
\* that the list storage returns
C39_Witness ==
    \E p \in Threads :
        /\ AfterCall(p, "grid_get_nearby_drivers")
        /\ loc[p].pickup = Origin
        /\ Len(loc[p].candidate_drivers) >= 1
        /\ Len(loc[p].candidate_drivers) < Len(list_get_nearby_drivers(Origin))


====
